---- MODULE Spec2Model ----
(***************************************************************************)
(* State-machine model of the shot conversion orchestrator of              *)
(* src/sbs_gui.py: the status store, scan_shots, the frame diff            *)
(* (_frame_list), the conversion runs (_convert_worker and its jobs), the  *)
(* promotion worker (_move_multiple_worker), live mode and the driver loop *)
(* (process_queue).                                                        *)
(*                                                                         *)
(* The filesystem is part of the state.  One source root holds the shot    *)
(* directories shot 1 .. NumShots; the converted-output directory of a     *)
(* shot is either beside its source (sbsDir) or under the destination root *)
(* (compDir).  A file is a record: its name (stem, base, tag, ext) and its *)
(* modification time.                                                      *)
(***************************************************************************)
EXTENDS Integers, Sequences, FiniteSets, TLC

\* ------------------------------------------------------------------ bounds
NumShots == 2
MaxFrames == 2
MaxTime == 2
MaxScanThreads == 2
MaxRuns == 2
MaxLiveThreads == 2
MaxQueue == 3
\* the clock advances in ticks of TickSeconds seconds
TickSeconds == 200

\* ---------------------------------------------------- configuration values
\* self.max_workers, self.min_delay (seconds), self.frame_time_multiplier:
\* set by the user, here fixed for the whole execution
max_workers == 2
min_delay == 100
frame_time_multiplier == 2

\* _cleanup_temp_files removes temporary files older than this (seconds)
CleanupAge == 300

Shots == 1..NumShots
Frames == 1..MaxFrames
Times == 0..MaxTime

NORMAL == "normal"
DISABLED == "disabled"

\* ---------------------------------------------------------------- file names
\* "<stem><base><tag><ext>": a frame is f<base>.exr, its converted file
\* f<base>_SBS.exr, a temporary file of job j is tmp<j>.exr.
FileName(stem, base, tag, ext) ==
    [stem |-> stem, base |-> base, tag |-> tag, ext |-> ext]

File(name, t) ==
    [stem |-> name.stem, base |-> name.base, tag |-> name.tag, ext |-> name.ext,
     mtime |-> t]

NameOf(f) == FileName(f.stem, f.base, f.tag, f.ext)

SourceFrame(b) == FileName("f", b, "", ".exr")

TempName(j) == FileName("tmp", j, "", ".exr")

\* f.lower().endswith(".exr")
IsExr(n) == n.ext \in {".exr", ".EXR"}

\* "_SBS" in f  (a temporary name is drawn from lower-case letters, digits and "_")
HasSbsTag(n) == n.tag # ""

\* f.replace(".exr", "_SBS.exr"): only a lower-case ".exr" is replaced
SbsName(n) == IF n.ext = ".exr" THEN [n EXCEPT !.tag = @ \o "_SBS"] ELSE n

\* the key of sorted(): lexical order of the file names ('.' < '_', 'E' < 'e')
NameRank(n) ==
    (n.base * 8)
    + (IF n.tag = "" THEN 0 ELSE IF n.tag = "_SBS" THEN 2 ELSE 4)
    + (IF n.ext = ".EXR" THEN 0 ELSE 1)

Names(files) == {NameOf(f) : f \in files}

\* a directory: whether it exists, the files in it, and whether os.listdir
\* may read it (it raises PermissionError otherwise).  As an entry of its
\* parent it is "dir", a directory with a plain name; the other entries a
\* source root may hold are "file" (no directory), "hidden" (a directory
\* whose name starts with "."), "cache" (__pycache__) and "sbs" (a directory
\* whose name ends with _SBS).
NoDir == [exists |-> FALSE, files |-> {}, readable |-> TRUE, entry |-> "dir"]

Dir(files) == [exists |-> TRUE, files |-> files, readable |-> TRUE, entry |-> "dir"]

OtherEntries == {"file", "hidden", "cache", "sbs"}

Entry(kind) == [exists |-> TRUE, files |-> {}, readable |-> TRUE, entry |-> kind]

\* sorted(names): the sequence of a set of names in lexical order
RECURSIVE SortNames(_)
SortNames(S) ==
    IF S = {} THEN <<>>
    ELSE LET m == CHOOSE x \in S : \A y \in S : NameRank(x) <= NameRank(y)
         IN <<m>> \o SortNames(S \ {m})

\* the ascending sequence of a set of integers
RECURSIVE SortInts(_)
SortInts(S) ==
    IF S = {} THEN <<>>
    ELSE LET m == CHOOSE x \in S : \A y \in S : x <= y
         IN <<m>> \o SortInts(S \ {m})

Range(q) == {q[i] : i \in DOMAIN q}

\* the sum of the values of a function with a finite domain
RECURSIVE SumFn(_)
SumFn(f) ==
    IF DOMAIN f = {} THEN 0
    ELSE LET x == CHOOSE y \in DOMAIN f : TRUE
         IN f[x] + SumFn([y \in DOMAIN f \ {x} |-> f[y]])

VARIABLES
    rootExists,     \* the source root directory exists
    srcDir,         \* srcDir[s]: the source directory <root>/shot s
    sbsDir,         \* sbsDir[s]: <root>/shot s_SBS, beside the source
    compDir,        \* compDir[s]: <ready_for_comp>/shot s_SBS
    statusFile,     \* <root>/.shot_status.json
    toolOnDisk,     \* an oiiotool executable can be found and run
    now,            \* time.time()
    current_folder, \* self.current_folder is set
    shots,          \* self.shots, the snapshot of the last scan
    scanning,       \* self.scanning
    live_mode_active,
    convert_btn,    \* state of self.convert_btn
    move_selected_btn,
    oiiotool,       \* self.oiiotool: "path" or "none"
    queue,          \* self.queue, the control messages in it
    draining,       \* the driver loop is inside process_queue's while loop
    scans,          \* the _scan_worker threads
    runs,           \* the _convert_worker threads
    mover,          \* the _move_multiple_worker thread of move_selected_to_comp
    main_move,      \* _move_multiple_worker called by the driver loop itself
    live_threads,   \* number of _live_mode_worker threads alive
    uncaught        \* the calls that ended a thread by an exception nothing caught

fsvars == <<rootExists, srcDir, sbsDir, compDir, statusFile, toolOnDisk, now>>
uivars == <<current_folder, shots, scanning, live_mode_active,
            convert_btn, move_selected_btn, oiiotool, queue, draining>>
thvars == <<scans, runs, mover, main_move, live_threads, uncaught>>
vars == <<fsvars, uivars, thvars>>

\* ------------------------------------------------------------ status store
\* A record of the status map.  A key the Python dict does not hold reads as
\* the value .get() gives for it: FALSE for is_moved, "" for the strings, 0
\* for the counts.
EmptyRec ==
    [is_moved |-> FALSE, moved_path |-> "", dropbox_status |-> "",
     path |-> 0, frames |-> 0, sbs_frames |-> 0]

EmptyMap == [s \in {} |-> EmptyRec]

\* the content of .shot_status.json:
\*   "missing"      no file
\*   "map"          a JSON object of records
\*   "garbled"      text that is no JSON document (json.JSONDecodeError)
\*   "nonmap"       a JSON document that is no object, such as []
\*   "undecodable"  bytes that are no text (UnicodeDecodeError)
StatusKinds == {"missing", "map", "garbled", "nonmap", "undecodable"}

StatusContent(kind, map) == [kind |-> kind, map |-> map]

\* load_shot_statuses: what the call gives: the exception that leaves it
\* (raised), or the value returned, a dict (ismap) or another JSON value
load_shot_statuses(file) ==
    CASE file.kind = "missing" ->
           [raised |-> FALSE, ismap |-> TRUE, map |-> EmptyMap]
      [] file.kind = "map" ->
           [raised |-> FALSE, ismap |-> TRUE, map |-> file.map]
      [] file.kind = "garbled" ->
           [raised |-> FALSE, ismap |-> TRUE, map |-> EmptyMap]
      [] file.kind = "nonmap" ->
           [raised |-> FALSE, ismap |-> FALSE, map |-> EmptyMap]
      [] OTHER ->
           [raised |-> TRUE, ismap |-> FALSE, map |-> EmptyMap]

\* statuses.get(name, {})
GetRec(map, s) == IF s \in DOMAIN map THEN map[s] ELSE EmptyRec

\* statuses[name] = rec
PutRec(map, s, rec) ==
    [x \in DOMAIN map \cup {s} |-> IF x = s THEN rec ELSE map[x]]

\* --------------------------------------------------------------- scanning
\* frame_count(path); a missing directory counts 0
frame_count(dir) ==
    IF dir.exists
    THEN Cardinality({n \in Names(dir.files) : IsExr(n) /\ ~HasSbsTag(n)})
    ELSE 0

\* sbs_frame_count(path): every .exr file of the directory
sbs_frame_count(dir) ==
    IF dir.exists
    THEN Cardinality({n \in Names(dir.files) : IsExr(n)})
    ELSE 0

\* a faulty variant of DropboxStatus: Complete only for equal counts
DropboxStatusEqualOnly(frames, sbs_frames) ==
    IF frames > 0 /\ sbs_frames = frames THEN "Complete"
    ELSE IF frames > 0 /\ sbs_frames > 0 /\ sbs_frames < frames THEN "In Progress"
    ELSE "Not Started"

\* the dropbox status scan_shots derives from sbs_frames / frames
DropboxStatus(frames, sbs_frames) ==
    IF frames > 0 /\ sbs_frames >= frames THEN "Complete"
    ELSE IF frames > 0 /\ sbs_frames > 0 THEN "In Progress"
    ELSE "Not Started"

\* a faulty variant of ScanShot: the directory beside the source is looked
\* at before the one under the destination root
ScanShotLocalFirst(s) ==
    LET frames == frame_count(srcDir[s])
        is_moved == ~sbsDir[s].exists /\ compDir[s].exists
        sbs_frames == IF sbsDir[s].exists THEN sbs_frame_count(sbsDir[s])
                      ELSE IF compDir[s].exists THEN sbs_frame_count(compDir[s])
                      ELSE 0
        needs == frames > sbs_frames
    IN [name |-> s, path |-> s, has_sbs |-> ~needs, frames |-> frames,
        sbs_frames |-> sbs_frames, needs_conversion |-> needs,
        dropbox_status |-> DropboxStatus(frames, sbs_frames),
        is_moved |-> is_moved,
        moved_path |-> IF is_moved THEN "comp" ELSE ""]

\* the Shot scan_shots builds for the source directory of shot s
ScanShot(s) ==
    LET frames == frame_count(srcDir[s])
        is_moved == compDir[s].exists
        sbs_frames == IF compDir[s].exists THEN sbs_frame_count(compDir[s])
                      ELSE IF sbsDir[s].exists THEN sbs_frame_count(sbsDir[s])
                      ELSE 0
        needs == frames > sbs_frames
    IN [name |-> s, path |-> s, has_sbs |-> ~needs, frames |-> frames,
        sbs_frames |-> sbs_frames, needs_conversion |-> needs,
        dropbox_status |-> DropboxStatus(frames, sbs_frames),
        is_moved |-> is_moved,
        moved_path |-> IF is_moved THEN "comp" ELSE ""]

\* the status record scan_shots stores for a scanned shot
ScanRec(old, shot) ==
    [old EXCEPT !.is_moved = shot.is_moved,
                !.dropbox_status = shot.dropbox_status,
                !.path = shot.path,
                !.frames = shot.frames,
                !.sbs_frames = shot.sbs_frames]

\* the Shot scan_shots builds for a record whose source directory is gone
GhostShot(s, rec) ==
    [name |-> s, path |-> rec.path, has_sbs |-> TRUE, frames |-> rec.frames,
     sbs_frames |-> rec.sbs_frames, needs_conversion |-> FALSE,
     dropbox_status |-> "Complete", is_moved |-> TRUE,
     moved_path |-> IF rec.moved_path = "" THEN "comp" ELSE rec.moved_path]

\* a faulty variant of ScanEntries: only the entries that are no directory
\* are skipped
ScanEntriesAllDirs ==
    IF rootExists
    THEN {s \in Shots : srcDir[s].exists /\ srcDir[s].entry # "file"}
    ELSE {}

\* the directory entries scan_shots keeps of os.scandir(root), [] without
\* root: the directories that are not hidden, not __pycache__ and whose name
\* does not end with _SBS
ScanEntries ==
    IF rootExists
    THEN {s \in Shots : srcDir[s].exists /\ srcDir[s].entry = "dir"}
    ELSE {}

\* sbs_frame_count catches FileNotFoundError only: the PermissionError of a
\* directory that cannot be listed leaves it, and scan_shots with it
ScanListRaises ==
    \E s \in ScanEntries :
        \/ compDir[s].exists /\ ~compDir[s].readable
        \/ ~compDir[s].exists /\ sbsDir[s].exists /\ ~sbsDir[s].readable

\* the walk with the ghost loop not verifying the destination directory
ScanWalkKeepsGone(map) ==
    LET entries == ScanEntries
        ghosts == {s \in DOMAIN map \ entries : map[s].is_moved}
    IN [shots |-> [s \in entries \cup ghosts |->
                      IF s \in entries THEN ScanShot(s)
                      ELSE GhostShot(s, map[s])],
        statuses |-> [s \in DOMAIN map \cup entries |->
                      IF s \in entries THEN ScanRec(GetRec(map, s), ScanShot(s))
                      ELSE map[s]]]

\* the walk persisting the move state of the old record
ScanWalkKeepsRecord(map) ==
    LET entries == ScanEntries
        ghosts == {s \in DOMAIN map \ entries :
                       map[s].is_moved /\ compDir[s].exists}
    IN [shots |-> [s \in entries \cup ghosts |->
                      IF s \in entries THEN ScanShot(s)
                      ELSE GhostShot(s, map[s])],
        statuses |-> [s \in DOMAIN map \cup entries |->
                      IF s \in entries /\ s \notin DOMAIN map
                      THEN ScanRec(EmptyRec, ScanShot(s))
                      ELSE map[s]]]

\* the walk of scan_shots over the filesystem, from the loaded map `map`:
\* the shots found, as a function of their names, and the map to be saved
ScanWalk(map) ==
    LET entries == ScanEntries
        ghosts == {s \in DOMAIN map \ entries :
                       map[s].is_moved /\ compDir[s].exists}
    IN [shots |-> [s \in entries \cup ghosts |->
                      IF s \in entries THEN ScanShot(s)
                      ELSE GhostShot(s, map[s])],
        statuses |-> [s \in DOMAIN map \cup entries |->
                      IF s \in entries THEN ScanRec(GetRec(map, s), ScanShot(s))
                      ELSE map[s]]]

\* sorted(shots_map.values(), key=name)
ShotList(shotmap) ==
    LET order == SortInts(DOMAIN shotmap)
    IN [i \in DOMAIN order |-> shotmap[order[i]]]


\* ------------------------------------------------------------- frame diff
\* the source frames of a directory: .exr files not tagged as converted
SourceFrames(dir) == {n \in Names(dir.files) : IsExr(n) /\ ~HasSbsTag(n)}

\* os.listdir(shot.path) raises FileNotFoundError
SourceGone(s) == ~rootExists \/ ~srcDir[s].exists

\* a faulty variant of frame_list: the answer is taken from the last scan
\* when that reports the shot as converted
FrameListFromSnapshot(s) ==
    IF \E i \in DOMAIN shots : shots[i].name = s /\ ~shots[i].needs_conversion
    THEN <<>>
    ELSE LET source == {n \in Names(srcDir[s].files) : IsExr(n) /\ ~HasSbsTag(n)}
         IN SortNames(IF sbsDir[s].exists /\ sbsDir[s].readable
                      THEN {n \in source : SbsName(n) \notin Names(sbsDir[s].files)}
                      ELSE source)

\* a faulty variant of frame_list: nothing is listed for a shot whose
\* converted-output directory cannot be read
FrameListSkipsUnreadable(s) ==
    LET source == {n \in Names(srcDir[s].files) : IsExr(n) /\ ~HasSbsTag(n)}
    IN IF sbsDir[s].exists /\ ~sbsDir[s].readable THEN <<>>
       ELSE SortNames(IF sbsDir[s].exists
                      THEN {n \in source : SbsName(n) \notin Names(sbsDir[s].files)}
                      ELSE source)

\* _frame_list(path), for a source directory that exists: the sorted source
\* frames whose converted name is not in <path>_SBS; all of them when
\* <path>_SBS is missing or os.listdir raises on it
frame_list(s) ==
    LET source == SourceFrames(srcDir[s])
        existing_sbs == Names(sbsDir[s].files)
    IN SortNames(IF sbsDir[s].exists /\ sbsDir[s].readable
                 THEN {n \in source : SbsName(n) \notin existing_sbs}
                 ELSE source)

\* _frame_count(path)
FrameListCount(s) == Len(frame_list(s))

\* -------------------------------------------------------- idle heuristic
MtimeOf(dir, n) == (CHOOSE f \in dir.files : NameOf(f) = n).mtime

RECURSIVE SumSeq(_)
SumSeq(q) == IF q = <<>> THEN 0 ELSE Head(q) + SumSeq(Tail(q))

\* the test of _handle_auto_processing on the frames of shot s at time t
\* (seconds = ticks * TickSeconds).  avg_delta = sum(deltas) / len(deltas) and
\*   time_since_last_frame > max(min_delay, avg_delta * multiplier)
\* are compared without the division, len(deltas) being positive.
IdleLongEnough(s, t) ==
    LET frame_files == SortNames({n \in Names(srcDir[s].files) : IsExr(n)})
        timestamps == [i \in DOMAIN frame_files |->
                          MtimeOf(srcDir[s], frame_files[i]) * TickSeconds]
        deltas == [i \in 1..(Len(timestamps) - 1) |->
                          timestamps[i + 1] - timestamps[i]]
        since == (t * TickSeconds) - timestamps[Len(timestamps)]
    IN /\ Len(frame_files) >= 2
       /\ since > min_delay
       /\ since * Len(deltas) > SumSeq(deltas) * frame_time_multiplier

\* the shots _handle_auto_processing finds ready to move, in snapshot order
ShotsReadyToMove(list) ==
    SelectSeq(list, LAMBDA shot :
        /\ ~shot.is_moved
        /\ ~shot.needs_conversion
        /\ shot.dropbox_status = "Complete"
        /\ shot.path # 0
        /\ ~SourceGone(shot.path)
        /\ IdleLongEnough(shot.path, now))

\* -------------------------------------------------------------- promotion
\* A call of _move_multiple_worker: the shots still to move, the map it
\* loaded for the shot it has just moved, and the log line of the shot it
\* handled last: "skipped", "failed" or "moved" ("none" before the first).
IdlePromo == [pc |-> "idle", pending |-> <<>>, loaded |-> EmptyMap, last |-> "none"]

StartPromo(names) ==
    [pc |-> "check", pending |-> names, loaded |-> EmptyMap, last |-> "none"]

MovedRec(map, s) ==
    PutRec(map, s, [GetRec(map, s) EXCEPT !.is_moved = TRUE, !.moved_path = "comp"])

\* the filesystem a step of the loop leaves, and the call after the step
PromoResult(p, sbs, comp, status) ==
    [promo |-> p, sbsDir |-> sbs, compDir |-> comp, statusFile |-> status]

\* the loop goes to its next shot, having logged `line` for this one
PromoNext(p, line) ==
    [p EXCEPT !.pc = "check", !.pending = Tail(@), !.loaded = EmptyMap,
              !.last = line]

\* the directory <shot>_SBS that shutil.move puts inside a destination that
\* is a directory already: an entry of it that is no .exr file
NestedName(s) == FileName("dir", s, "_SBS", "")

\* the existence checks of one shot of the loop
PromoCheck(p) ==
    LET s == Head(p.pending)
    IN IF ~sbsDir[s].exists \/ compDir[s].exists
       THEN \* "Skipping ... (source missing or destination exists)"
            PromoResult(PromoNext(p, "skipped"), sbsDir, compDir, statusFile)
       ELSE PromoResult([p EXCEPT !.pc = "move"], sbsDir, compDir, statusFile)

\* the ways shutil.move can end:
\*   "moved"   the directory is at the destination
\*   "raised"  it raises and has changed nothing
\*   "copied"  os.rename being refused, it has copied the directory to the
\*             destination and raises while removing the source
MoveOutcomes == {"moved", "raised", "copied"}

\* the outcomes of a move that has happened wholly or not at all
WholeMoves == {"moved", "raised"}

\* shutil.move and load_shot_statuses of the shot that passed the checks,
\* shutil.move ending as `how` says.  It raises as well when the source is
\* gone by now, or when the destination holds a <shot>_SBS of its own; a
\* destination directory made since the check receives the source inside it.
PromoMove(p, how) ==
    LET s == Head(p.pending)
        loaded == load_shot_statuses(statusFile)
        after == IF loaded.raised \/ ~loaded.ismap
                 THEN PromoNext(p, "failed")  \* the load or setdefault raises
                 ELSE [p EXCEPT !.pc = "save", !.loaded = loaded.map]
        arrived == IF compDir[s].exists
                   THEN [compDir EXCEPT ![s].files = @ \cup {File(NestedName(s), now)}]
                   ELSE [compDir EXCEPT ![s] = sbsDir[s]]
    IN IF how = "raised" \/ ~sbsDir[s].exists
          \/ (compDir[s].exists /\ NestedName(s) \in Names(compDir[s].files))
       THEN \* "Failed to move ..."
            PromoResult(PromoNext(p, "failed"), sbsDir, compDir, statusFile)
       ELSE IF how = "copied"
       THEN \* "Failed to move ...", the copy made
            PromoResult(PromoNext(p, "failed"), sbsDir, arrived, statusFile)
       ELSE PromoResult(after, [sbsDir EXCEPT ![s] = NoDir], arrived, statusFile)

\* save_shot_statuses of the moved shot; open() raises without the root, and
\* the except clause logs it
PromoSave(p) ==
    IF rootExists
    THEN PromoResult(PromoNext(p, "moved"), sbsDir, compDir,
                     StatusContent("map", MovedRec(p.loaded, Head(p.pending))))
    ELSE PromoResult(PromoNext(p, "failed"), sbsDir, compDir, statusFile)

\* a step of the loop is possible
PromoBusy(p) == p.pc \in {"move", "save"} \/ (p.pc = "check" /\ p.pending # <<>>)

PromoStep(p, how) ==
    IF p.pc = "save" THEN PromoSave(p)
    ELSE IF p.pc = "move" THEN PromoMove(p, how)
    ELSE PromoCheck(p)

\* the loop is over: "All moves complete.", then the refresh_request
PromoOver(p) == p.pc = "check" /\ p.pending = <<>>

\* ------------------------------------------------------- the event queue
\* The control messages of self.queue.  The "log", "shot", "overall", "eta"
\* and "cpu" messages only set labels and progress bars; the counters they
\* carry are the fields done, total_frames and shot_progress of the run.
Msg(type, list) == [type |-> type, shots |-> list]

HeadIs(type) == queue # <<>> /\ Head(queue).type = type

\* the driver loop is in the event loop, in no callback
MainIdle == main_move.pc = "idle"

UserCan == ~draining /\ MainIdle

MinOf(S) == CHOOSE x \in S : \A y \in S : x <= y

\* ----------------------------------------------------------- scan threads
IdleScan == [pc |-> "idle", shots |-> <<>>, statuses |-> EmptyMap]

ScanFree == {t \in 1..MaxScanThreads : scans[t].pc = "idle"}

\* load_folder_from_path, q being the queue before it: the scan_started
\* message and the _scan_worker thread
load_folder_from_path(q) ==
    /\ ScanFree # {}
    /\ current_folder' = TRUE
    /\ queue' = Append(q, Msg("scan_started", <<>>))
    /\ scans' = [scans EXCEPT ![MinOf(ScanFree)] = [IdleScan EXCEPT !.pc = "start"]]

\* scan_shots up to the walk: the load and the walk of the directories.  A
\* load that raises, or gives no dict (statuses.items() then raises), ends
\* the thread, and so does an output directory that cannot be listed.
ScanBegin(t) ==
    /\ scans[t].pc = "start"
    /\ LET loaded == load_shot_statuses(statusFile)
           walk == ScanWalk(loaded.map)
       IN IF loaded.raised \/ ~loaded.ismap
          THEN /\ scans' = [scans EXCEPT ![t] = IdleScan]
               /\ uncaught' = uncaught \cup {"scan_status"}
          ELSE IF ScanListRaises
          THEN /\ scans' = [scans EXCEPT ![t] = IdleScan]
               /\ uncaught' = uncaught \cup {"scan_listdir"}
          ELSE /\ scans' = [scans EXCEPT ![t] =
                      [pc |-> "walked", shots |-> ShotList(walk.shots),
                       statuses |-> walk.statuses]]
               /\ UNCHANGED uncaught
    /\ UNCHANGED <<fsvars, uivars, runs, mover, main_move, live_threads>>

\* save_shot_statuses and the return of scan_shots, then scan_finished.
\* open(..., "w") raises FileNotFoundError when the root is missing.
ScanEnd(t) ==
    /\ scans[t].pc = "walked"
    /\ scans' = [scans EXCEPT ![t] = IdleScan]
    /\ IF rootExists
       THEN /\ statusFile' = StatusContent("map", scans[t].statuses)
            /\ queue' = Append(queue, Msg("scan_finished", scans[t].shots))
            /\ UNCHANGED uncaught
       ELSE /\ uncaught' = uncaught \cup {"scan_save"}
            /\ UNCHANGED <<statusFile, queue>>
    /\ UNCHANGED <<rootExists, srcDir, sbsDir, compDir, toolOnDisk, now,
                   current_folder, shots, scanning, live_mode_active,
                   convert_btn, move_selected_btn, oiiotool, draining,
                   runs, mover, main_move, live_threads>>

\* ------------------------------------------------------- conversion runs
MaxJobs == NumShots * MaxFrames

EmptyProgress == [s \in {} |-> [done |-> 0, total |-> 0]]

IdleRun ==
    [pc |-> "idle", shots |-> <<>>, tool |-> "none", total_frames |-> 0,
     done |-> 0, next |-> 1, jobs |-> <<>>, shot_progress |-> EmptyProgress,
     move |-> IdlePromo]

RunFree == {r \in 1..MaxRuns : runs[r].pc = "idle"}

\* threading.Thread(target=self._convert_worker, args=(names, tool)).start()
StartRun(names, tool) ==
    [runs EXCEPT ![MinOf(RunFree)] =
        [IdleRun EXCEPT !.pc = "count", !.shots = names, !.tool = tool]]

Job(s, frame) == [shot |-> s, frame |-> frame, st |-> "queued", ret |-> 0]

\* the name of the temporary file of job j of run r
JobTemp(r, j) == TempName(((r - 1) * MaxJobs) + j)

Running(r) == {j \in DOMAIN runs[r].jobs : runs[r].jobs[j].st = "running"}

\* external converter invocations in progress, over all runs
InProgress == SumFn([r \in 1..MaxRuns |-> Cardinality(Running(r))])

\* total_frames = sum(self._frame_count(s.path) for s in shots)
RunCount(r) ==
    /\ runs[r].pc = "count"
    /\ IF \E i \in DOMAIN runs[r].shots : SourceGone(runs[r].shots[i])
       THEN /\ runs' = [runs EXCEPT ![r] = IdleRun]
            /\ uncaught' = uncaught \cup {"convert"}
       ELSE /\ runs' = [runs EXCEPT ![r].pc = "submit",
                     ![r].total_frames =
                         SumFn([i \in DOMAIN runs[r].shots |->
                                   FrameListCount(runs[r].shots[i])])]
            /\ UNCHANGED uncaught
    /\ UNCHANGED <<fsvars, uivars, scans, mover, main_move, live_threads>>

\* one turn of "for shot in shots": the frame list, makedirs, the submits
RunSubmit(r) ==
    /\ runs[r].pc = "submit"
    /\ runs[r].next <= Len(runs[r].shots)
    /\ LET s == runs[r].shots[runs[r].next]
           frames == frame_list(s)
       IN IF SourceGone(s)
          THEN \* listdir raises; the executor waits for its jobs
               /\ runs' = [runs EXCEPT ![r].pc = "crash"]
               /\ UNCHANGED sbsDir
          ELSE IF frames = <<>>
          THEN /\ runs' = [runs EXCEPT ![r].next = @ + 1]
               /\ UNCHANGED sbsDir
          ELSE /\ sbsDir' = [sbsDir EXCEPT ![s].exists = TRUE]
               /\ runs' = [runs EXCEPT ![r].next = @ + 1,
                        ![r].jobs = @ \o [i \in DOMAIN frames |-> Job(s, frames[i])]]
    /\ UNCHANGED <<rootExists, srcDir, compDir, statusFile, toolOnDisk, now,
                   uivars, scans, mover, main_move, live_threads, uncaught>>

\* shot_progress = {shot.name: {"done": 0, "total": len(_frame_list(...))}}
RunProgress(r) ==
    /\ runs[r].pc = "submit"
    /\ runs[r].next > Len(runs[r].shots)
    /\ IF \E i \in DOMAIN runs[r].shots : SourceGone(runs[r].shots[i])
       THEN runs' = [runs EXCEPT ![r].pc = "crash"]
       ELSE runs' = [runs EXCEPT ![r].pc = "collect",
                ![r].shot_progress =
                    [s \in Range(runs[r].shots) |->
                        [done |-> 0, total |-> FrameListCount(s)]]]
    /\ UNCHANGED <<fsvars, uivars, scans, mover, main_move, live_threads, uncaught>>

\* --------------------------------------------------------------- the jobs
RemoveName(files, n) == {f \in files : NameOf(f) # n}

\* the converter can be invoked: the path given to the run names a program
ToolUsable(r) == runs[r].tool = "path" /\ toolOnDisk

\* process() up to the start of the converter: a worker of the pool takes the
\* oldest queued job, acquires the semaphore and creates the temporary file.
\* When the directory is gone, NamedTemporaryFile raises and the job returns
\* -1; when there is no executable, subprocess.run raises at once, the
\* finally clause removes the temporary file and the job returns -1.
JobStart(r, j) ==
    /\ runs[r].pc \in {"submit", "collect", "crash"}
    /\ j \in DOMAIN runs[r].jobs
    /\ runs[r].jobs[j].st = "queued"
    /\ \A k \in 1..(j - 1) : runs[r].jobs[k].st # "queued"
    /\ Cardinality(Running(r)) < max_workers
    /\ LET s == runs[r].jobs[j].shot
       IN IF sbsDir[s].exists /\ ToolUsable(r)
          THEN /\ sbsDir' = [sbsDir EXCEPT ![s].files =
                      RemoveName(@, JobTemp(r, j)) \cup {File(JobTemp(r, j), now)}]
               /\ runs' = [runs EXCEPT ![r].jobs[j].st = "running"]
          ELSE /\ runs' = [runs EXCEPT ![r].jobs[j].st = "finished",
                                       ![r].jobs[j].ret = -1]
               /\ UNCHANGED sbsDir
    /\ UNCHANGED <<rootExists, srcDir, compDir, statusFile, toolOnDisk, now,
                   uivars, scans, mover, main_move, live_threads, uncaught>>

\* the ways the converter and the rename can end for the running job j of
\* run r:
\*   "ok"      exit code 0, temp renamed to the final name
\*   "nonzero" exit code not 0 (always so when the directory is gone)
\*   "raise"   os.rename raises: the final name exists, on a platform that
\*             refuses to replace it
JobOutcomes(r, j) ==
    LET s == runs[r].jobs[j].shot
        dst == SbsName(runs[r].jobs[j].frame)
    IN IF ~sbsDir[s].exists THEN {"nonzero"}
       ELSE IF dst \in Names(sbsDir[s].files) THEN {"ok", "nonzero", "raise"}
       ELSE {"ok", "nonzero"}

\* a faulty variant of JobFiles: the temporary file is renamed to the final
\* name whatever the outcome
JobFilesRenameAlways(files, tmp, dst, outcome) ==
    RemoveName(RemoveName(files, tmp), dst) \cup {File(dst, now)}

\* a faulty variant of JobFiles: the temporary file of a failed job stays
JobFilesKeepsTemp(files, tmp, dst, outcome) ==
    IF outcome = "ok"
    THEN RemoveName(RemoveName(files, tmp), dst) \cup {File(dst, now)}
    ELSE files

\* the converted-output directory after the job: the rename on success, and
\* the removal of the temporary file by the finally clause
JobFiles(files, tmp, dst, outcome) ==
    IF outcome = "ok"
    THEN RemoveName(RemoveName(files, tmp), dst) \cup {File(dst, now)}
    ELSE RemoveName(files, tmp)

JobRet(outcome) ==
    IF outcome = "ok" THEN 0 ELSE IF outcome = "nonzero" THEN 1 ELSE -1

\* process() from subprocess.run to its return
JobFinish(r, j, outcome) ==
    /\ j \in DOMAIN runs[r].jobs
    /\ runs[r].jobs[j].st = "running"
    /\ outcome \in JobOutcomes(r, j)
    /\ LET s == runs[r].jobs[j].shot
       IN sbsDir' = [sbsDir EXCEPT ![s].files =
              IF sbsDir[s].exists
              THEN JobFiles(@, JobTemp(r, j), SbsName(runs[r].jobs[j].frame), outcome)
              ELSE @]
    /\ runs' = [runs EXCEPT ![r].jobs[j].st = "finished",
                            ![r].jobs[j].ret = JobRet(outcome)]
    /\ UNCHANGED <<rootExists, srcDir, compDir, statusFile, toolOnDisk, now,
                   uivars, scans, mover, main_move, live_threads, uncaught>>

\* a faulty variant of RunCollect: the completion is counted in the overall
\* counter only
RunCollectOverallOnly(r, j) ==
    /\ runs[r].pc = "collect"
    /\ j \in DOMAIN runs[r].jobs
    /\ runs[r].jobs[j].st = "finished"
    /\ runs' = [runs EXCEPT ![r].jobs[j].st = "collected",
                            ![r].done = @ + 1]
    /\ UNCHANGED <<fsvars, uivars, scans, mover, main_move, live_threads, uncaught>>

\* a faulty variant of RunCollect: the completion of a failed job is not
\* counted
RunCollectSkipsFailed(r, j) ==
    /\ runs[r].pc = "collect"
    /\ j \in DOMAIN runs[r].jobs
    /\ runs[r].jobs[j].st = "finished"
    /\ runs' = IF runs[r].jobs[j].ret # 0
               THEN [runs EXCEPT ![r].jobs[j].st = "collected"]
               ELSE [runs EXCEPT ![r].jobs[j].st = "collected",
                                 ![r].done = @ + 1,
                                 ![r].shot_progress[runs[r].jobs[j].shot].done = @ + 1]
    /\ UNCHANGED <<fsvars, uivars, scans, mover, main_move, live_threads, uncaught>>

\* one turn of "for future in as_completed(futures)"
RunCollect(r, j) ==
    /\ runs[r].pc = "collect"
    /\ j \in DOMAIN runs[r].jobs
    /\ runs[r].jobs[j].st = "finished"
    /\ runs' = [runs EXCEPT ![r].jobs[j].st = "collected",
                            ![r].done = @ + 1,
                            ![r].shot_progress[runs[r].jobs[j].shot].done = @ + 1]
    /\ UNCHANGED <<fsvars, uivars, scans, mover, main_move, live_threads, uncaught>>

\* a run whose thread raised: the executor's exit waits for the jobs
RunCrash(r) ==
    /\ runs[r].pc = "crash"
    /\ \A j \in DOMAIN runs[r].jobs : runs[r].jobs[j].st = "finished"
    /\ runs' = [runs EXCEPT ![r] = IdleRun]
    /\ uncaught' = uncaught \cup {"convert"}
    /\ UNCHANGED <<fsvars, uivars, scans, mover, main_move, live_threads>>

\* the shots the pass after a run finds to move
ShotsToMove(names, map) ==
    SelectSeq(names, LAMBDA s :
        /\ sbs_frame_count(sbsDir[s]) = frame_count(srcDir[s])
        /\ GetRec(map, s).dropbox_status = "Complete"
        /\ ~GetRec(map, s).is_moved)

\* a faulty variant of RunDone: a run that finds nothing to move ends without
\* its refresh_request
RunDoneNoRefresh(r) ==
    /\ runs[r].pc = "collect"
    /\ \A j \in DOMAIN runs[r].jobs : runs[r].jobs[j].st = "collected"
    /\ LET loaded == load_shot_statuses(statusFile)
           to_move == ShotsToMove(runs[r].shots, loaded.map)
       IN IF to_move # <<>>
          THEN runs' = [runs EXCEPT ![r].pc = "moving",
                                    ![r].move = StartPromo(to_move)]
          ELSE runs' = [runs EXCEPT ![r] = IdleRun]
    /\ queue' = Append(queue, Msg("done", <<>>))
    /\ UNCHANGED <<fsvars, current_folder, shots, scanning, live_mode_active,
                   convert_btn, move_selected_btn, oiiotool, draining,
                   scans, mover, main_move, live_threads, uncaught>>

\* the end of the loop: the "done" message, then "Auto-move completed
\* shots": the load and the choice of the shots to move
RunDone(r) ==
    /\ runs[r].pc = "collect"
    /\ \A j \in DOMAIN runs[r].jobs : runs[r].jobs[j].st = "collected"
    /\ LET loaded == load_shot_statuses(statusFile)
           to_move == ShotsToMove(runs[r].shots, loaded.map)
       IN IF \/ loaded.raised
             \/ ~loaded.ismap
             \/ \E i \in DOMAIN runs[r].shots :
                    LET d == sbsDir[runs[r].shots[i]] IN d.exists /\ ~d.readable
          THEN /\ runs' = [runs EXCEPT ![r] = IdleRun]
               /\ uncaught' = uncaught \cup {"convert"}
               /\ queue' = Append(queue, Msg("done", <<>>))
          ELSE IF to_move # <<>>
          THEN /\ runs' = [runs EXCEPT ![r].pc = "moving",
                                       ![r].move = StartPromo(to_move)]
               /\ queue' = Append(queue, Msg("done", <<>>))
               /\ UNCHANGED uncaught
          ELSE /\ runs' = [runs EXCEPT ![r] = IdleRun]
               /\ queue' = Append(Append(queue, Msg("done", <<>>)),
                                  Msg("refresh_request", <<>>))
               /\ UNCHANGED uncaught
    /\ UNCHANGED <<fsvars, current_folder, shots, scanning, live_mode_active,
                   convert_btn, move_selected_btn, oiiotool, draining,
                   scans, mover, main_move, live_threads>>

\* a step of _move_multiple_worker called by the run
RunMove(r, how) ==
    /\ runs[r].pc = "moving"
    /\ PromoBusy(runs[r].move)
    /\ LET res == PromoStep(runs[r].move, how)
       IN /\ runs' = [runs EXCEPT ![r].move = res.promo]
          /\ sbsDir' = res.sbsDir
          /\ compDir' = res.compDir
          /\ statusFile' = res.statusFile
    /\ UNCHANGED <<rootExists, srcDir, toolOnDisk, now, uivars, scans, mover,
                   main_move, live_threads, uncaught>>

\* the refresh_request of _move_multiple_worker and that of the run
RunMoveOver(r) ==
    /\ runs[r].pc = "moving"
    /\ ~PromoBusy(runs[r].move)
    /\ runs' = [runs EXCEPT ![r] = IdleRun]
    /\ queue' = Append(Append(queue, Msg("refresh_request", <<>>)),
                       Msg("refresh_request", <<>>))
    /\ UNCHANGED <<fsvars, current_folder, shots, scanning, live_mode_active,
                   convert_btn, move_selected_btn, oiiotool, draining,
                   scans, mover, main_move, live_threads, uncaught>>

\* ------------------------------------------------- the promotion thread
\* a step of the _move_multiple_worker thread of move_selected_to_comp
MoverStep(how) ==
    /\ PromoBusy(mover)
    /\ LET res == PromoStep(mover, how)
       IN /\ mover' = res.promo
          /\ sbsDir' = res.sbsDir
          /\ compDir' = res.compDir
          /\ statusFile' = res.statusFile
    /\ UNCHANGED <<rootExists, srcDir, toolOnDisk, now, uivars, scans, runs,
                   main_move, live_threads, uncaught>>

MoverOver ==
    /\ mover.pc = "check"
    /\ mover.pending = <<>>
    /\ mover' = IdlePromo
    /\ queue' = Append(queue, Msg("refresh_request", <<>>))
    /\ UNCHANGED <<fsvars, current_folder, shots, scanning, live_mode_active,
                   convert_btn, move_selected_btn, oiiotool, draining,
                   scans, runs, main_move, live_threads, uncaught>>

\* ------------------------------------------------------ the driver loop
\* process_queue, "scan_started"
ProcessScanStarted ==
    /\ MainIdle
    /\ HeadIs("scan_started")
    /\ scanning' = TRUE
    /\ queue' = Tail(queue)
    /\ draining' = (queue' # <<>>)
    /\ UNCHANGED <<fsvars, current_folder, shots, live_mode_active, convert_btn,
                   move_selected_btn, oiiotool, thvars>>

NeedingConversion(list) == SelectSeq(list, LAMBDA shot : shot.needs_conversion)

ShotNames(list) == [i \in DOMAIN list |-> list[i].name]

\* _handle_auto_processing starts a run: live mode, the convert button not
\* disabled, a shot needing conversion
AutoConverts(list) ==
    /\ live_mode_active
    /\ convert_btn # DISABLED
    /\ NeedingConversion(list) # <<>>

\* process_queue, "scan_finished": _update_shot_list, and in live mode
\* _handle_auto_processing: the run it starts, and the shots it moves
ProcessScanFinished ==
    /\ MainIdle
    /\ HeadIs("scan_finished")
    /\ scanning' = FALSE
    /\ shots' = Head(queue).shots
    /\ queue' = Tail(queue)
    /\ IF AutoConverts(Head(queue).shots)
       THEN /\ RunFree # {}
            /\ runs' = StartRun(ShotNames(NeedingConversion(Head(queue).shots)),
                                oiiotool)
       ELSE UNCHANGED runs
    /\ IF live_mode_active /\ ShotsReadyToMove(Head(queue).shots) # <<>>
       THEN /\ main_move' = StartPromo(ShotNames(ShotsReadyToMove(Head(queue).shots)))
            /\ draining' = TRUE
       ELSE /\ UNCHANGED main_move
            /\ draining' = (queue' # <<>>)
    /\ UNCHANGED <<fsvars, current_folder, live_mode_active, convert_btn,
                   move_selected_btn, oiiotool, scans, mover, live_threads,
                   uncaught>>

\* a step of _move_multiple_worker called by _handle_auto_processing
MainMove(how) ==
    /\ PromoBusy(main_move)
    /\ LET res == PromoStep(main_move, how)
       IN /\ main_move' = res.promo
          /\ sbsDir' = res.sbsDir
          /\ compDir' = res.compDir
          /\ statusFile' = res.statusFile
    /\ UNCHANGED <<rootExists, srcDir, toolOnDisk, now, uivars, scans, runs,
                   mover, live_threads, uncaught>>

MainMoveOver ==
    /\ main_move.pc = "check"
    /\ main_move.pending = <<>>
    /\ main_move' = IdlePromo
    /\ queue' = Append(queue, Msg("refresh_request", <<>>))
    /\ draining' = TRUE
    /\ UNCHANGED <<fsvars, current_folder, shots, scanning, live_mode_active,
                   convert_btn, move_selected_btn, oiiotool, scans, runs,
                   mover, live_threads, uncaught>>

\* process_queue, "done"
ProcessDone ==
    /\ MainIdle
    /\ HeadIs("done")
    /\ convert_btn' = NORMAL
    /\ queue' = Tail(queue)
    /\ draining' = (queue' # <<>>)
    /\ UNCHANGED <<fsvars, current_folder, shots, scanning, live_mode_active,
                   move_selected_btn, oiiotool, thvars>>

\* process_queue, "refresh_request": refresh_folder
ProcessRefreshRequest ==
    /\ MainIdle
    /\ HeadIs("refresh_request")
    /\ IF current_folder
       THEN load_folder_from_path(Tail(queue))
       ELSE /\ queue' = Tail(queue)
            /\ UNCHANGED <<current_folder, scans>>
    /\ draining' = (queue' # <<>>)
    /\ UNCHANGED <<fsvars, shots, scanning, live_mode_active, convert_btn,
                   move_selected_btn, oiiotool, runs, mover, main_move,
                   live_threads, uncaught>>

\* ---------------------------------------------------------- user actions
\* the "Select Shots Folder" button, with no folder selected yet
SelectFolder ==
    /\ UserCan
    /\ ~scanning
    /\ ~current_folder
    /\ load_folder_from_path(queue)
    /\ UNCHANGED <<fsvars, shots, scanning, live_mode_active, convert_btn,
                   move_selected_btn, oiiotool, draining, runs, mover,
                   main_move, live_threads, uncaught>>

\* the "Refresh" button: refresh_folder
ClickRefresh ==
    /\ UserCan
    /\ ~scanning
    /\ current_folder
    /\ Len(queue) < MaxQueue
    /\ load_folder_from_path(queue)
    /\ UNCHANGED <<fsvars, shots, scanning, live_mode_active, convert_btn,
                   move_selected_btn, oiiotool, draining, runs, mover,
                   main_move, live_threads, uncaught>>

\* the "Live Mode" check box: _toggle_live_mode
ToggleLiveMode ==
    /\ UserCan
    /\ IF ~live_mode_active
       THEN /\ live_threads < MaxLiveThreads
            /\ live_mode_active' = TRUE
            /\ convert_btn' = DISABLED
            /\ move_selected_btn' = DISABLED
            /\ live_threads' = live_threads + 1
       ELSE /\ live_mode_active' = FALSE
            /\ convert_btn' = NORMAL
            /\ move_selected_btn' = NORMAL
            /\ UNCHANGED live_threads
    /\ UNCHANGED <<fsvars, current_folder, shots, scanning, oiiotool, queue,
                   draining, scans, runs, mover, main_move, uncaught>>

\* one turn of the loop of _live_mode_worker
LiveTick ==
    /\ live_threads > 0
    /\ IF ~live_mode_active
       THEN /\ live_threads' = live_threads - 1
            /\ UNCHANGED <<current_folder, queue, scans>>
       ELSE /\ current_folder
            /\ ~scanning
            /\ Len(queue) < MaxQueue
            /\ load_folder_from_path(queue)
            /\ UNCHANGED live_threads
    /\ UNCHANGED <<fsvars, shots, scanning, live_mode_active, convert_btn,
                   move_selected_btn, oiiotool, draining, runs, mover,
                   main_move, uncaught>>

\* the check boxes the user can have set: that of a moved shot is disabled
\* and keeps its value, which is needs_conversion unless cleared
Selections ==
    {sel \in SUBSET DOMAIN shots :
        \A i \in DOMAIN shots :
            shots[i].is_moved => (i \in sel <=> shots[i].needs_conversion)}

\* the names of the checked shots of the snapshot that pass a test, in
\* snapshot order
NamesAt(idx) ==
    LET order == SortInts(idx)
    IN [k \in DOMAIN order |-> shots[order[k]].name]

\* start_convert: the checked shots that need conversion
SelectedToConvert(sel) == NamesAt({i \in sel : shots[i].needs_conversion})

\* move_selected_to_comp: the checked shots converted, Complete, not moved
SelectedToMove(sel) ==
    NamesAt({i \in sel : /\ ~shots[i].is_moved
                          /\ ~shots[i].needs_conversion
                          /\ shots[i].dropbox_status = "Complete"})

\* _cleanup_temp_files on one directory
CleanedFiles(files) ==
    {f \in files : ~(/\ f.stem = "tmp"
                     /\ f.ext = ".exr"
                     /\ (now - f.mtime) * TickSeconds > CleanupAge)}

\* the directories after a cleanup; os.scandir raising on a directory that
\* cannot be listed ends it, the directories in S having been cleaned
CleanedIn(S) ==
    [s \in Shots |-> IF s \in S /\ rootExists /\ sbsDir[s].exists
                     THEN [sbsDir[s] EXCEPT !.files = CleanedFiles(@)]
                     ELSE sbsDir[s]]

CleanReach ==
    IF \A s \in Shots : sbsDir[s].readable THEN {Shots}
    ELSE SUBSET {s \in Shots : sbsDir[s].readable}

\* find_oiiotool()
find_oiiotool == IF toolOnDisk THEN "path" ELSE "none"

\* the "Convert Selected" button: start_convert, with the boxes sel checked
ClickConvert(sel) ==
    /\ UserCan
    /\ convert_btn = NORMAL
    /\ \E S \in CleanReach : sbsDir' = IF current_folder THEN CleanedIn(S) ELSE sbsDir
    /\ LET selected == SelectedToConvert(sel)
       IN IF selected = <<>> \/ find_oiiotool = "none"
          THEN UNCHANGED <<oiiotool, convert_btn, runs>>
          ELSE /\ RunFree # {}
               /\ oiiotool' = find_oiiotool
               /\ convert_btn' = DISABLED
               /\ runs' = StartRun(selected, find_oiiotool)
    /\ UNCHANGED <<rootExists, srcDir, compDir, statusFile, toolOnDisk, now,
                   current_folder, shots, scanning, live_mode_active,
                   move_selected_btn, queue, draining, scans, mover,
                   main_move, live_threads, uncaught>>

\* the "Move Selected to Comp" button: move_selected_to_comp, confirmed
ClickMoveSelected(sel) ==
    /\ UserCan
    /\ move_selected_btn = NORMAL
    /\ mover.pc = "idle"
    /\ LET eligible == SelectedToMove(sel)
       IN /\ eligible # <<>>
          /\ mover' = StartPromo(eligible)
    /\ UNCHANGED <<fsvars, uivars, scans, runs, main_move, live_threads, uncaught>>

\* _periodic_cleanup, every minute
PeriodicCleanup ==
    /\ current_folder
    /\ \E S \in CleanReach :
          /\ CleanedIn(S) # sbsDir
          /\ sbsDir' = CleanedIn(S)
    /\ UNCHANGED <<rootExists, srcDir, compDir, statusFile, toolOnDisk, now,
                   uivars, thvars>>

\* ------------------------------------------------------- the environment
Tick ==
    /\ now < MaxTime
    /\ now' = now + 1
    /\ UNCHANGED <<rootExists, srcDir, sbsDir, compDir, statusFile, toolOnDisk,
                   uivars, thvars>>

\* the renderer writes the next frame of shot s
FrameArrives(s) ==
    /\ rootExists
    /\ srcDir[s].exists
    /\ Cardinality(srcDir[s].files) < MaxFrames
    /\ srcDir' = [srcDir EXCEPT ![s].files =
           @ \cup {File(SourceFrame(Cardinality(@) + 1), now)}]
    /\ UNCHANGED <<rootExists, sbsDir, compDir, statusFile, toolOnDisk, now,
                   uivars, thvars>>

\* the renderer writes frame b of shot s again
FrameRewritten(s, b) ==
    /\ rootExists
    /\ srcDir[s].exists
    /\ \E f \in srcDir[s].files : NameOf(f) = SourceFrame(b) /\ f.mtime # now
    /\ srcDir' = [srcDir EXCEPT ![s].files =
           RemoveName(@, SourceFrame(b)) \cup {File(SourceFrame(b), now)}]
    /\ UNCHANGED <<rootExists, sbsDir, compDir, statusFile, toolOnDisk, now,
                   uivars, thvars>>

\* the listing of the converted-output directory of shot s is forbidden
OutputLocked(s) ==
    /\ rootExists
    /\ sbsDir[s].exists
    /\ sbsDir[s].readable
    /\ sbsDir' = [sbsDir EXCEPT ![s].readable = FALSE]
    /\ UNCHANGED <<rootExists, srcDir, compDir, statusFile, toolOnDisk, now,
                   uivars, thvars>>

\* the converter executable is removed
ToolVanishes ==
    /\ toolOnDisk
    /\ toolOnDisk' = FALSE
    /\ UNCHANGED <<rootExists, srcDir, sbsDir, compDir, statusFile, now,
                   uivars, thvars>>

\* the source root is removed, with everything beneath it
RootVanishes ==
    /\ rootExists
    /\ rootExists' = FALSE
    /\ srcDir' = [s \in Shots |-> NoDir]
    /\ sbsDir' = [s \in Shots |-> NoDir]
    /\ statusFile' = StatusContent("missing", EmptyMap)
    /\ UNCHANGED <<compDir, toolOnDisk, now, uivars, thvars>>

\* ------------------------------------------------------ the specification
\* the state after ConverterGUI.__init__, the filesystem being as given
ProgramStart(root, src, sbs, comp, status, tool) ==
    /\ rootExists = root
    /\ srcDir = src
    /\ sbsDir = sbs
    /\ compDir = comp
    /\ statusFile = status
    /\ toolOnDisk = tool
    /\ now = 0
    /\ current_folder = FALSE
    /\ shots = <<>>
    /\ scanning = FALSE
    /\ live_mode_active = FALSE
    /\ convert_btn = NORMAL
    /\ move_selected_btn = NORMAL
    /\ oiiotool = find_oiiotool
    /\ queue = <<>>
    /\ draining = FALSE
    /\ scans = [t \in 1..MaxScanThreads |-> IdleScan]
    /\ runs = [r \in 1..MaxRuns |-> IdleRun]
    /\ mover = IdlePromo
    /\ main_move = IdlePromo
    /\ live_threads = 0
    /\ uncaught = {}

NoDirs == [s \in Shots |-> NoDir]

NoStatus == StatusContent("missing", EmptyMap)

\* the program starts over empty shot directories
Init ==
    ProgramStart(TRUE, [s \in Shots |-> Dir({})], NoDirs, NoDirs, NoStatus, TRUE)

\* the user, with live mode off
UserManual ==
    \/ SelectFolder
    \/ ClickRefresh
    \/ \E sel \in Selections : ClickConvert(sel)
    \/ \E sel \in Selections : ClickMoveSelected(sel)

\* process_queue
Driver ==
    \/ ProcessScanStarted
    \/ ProcessScanFinished
    \/ ProcessDone
    \/ ProcessRefreshRequest

ScanThreads ==
    \/ \E t \in 1..MaxScanThreads : ScanBegin(t)
    \/ \E t \in 1..MaxScanThreads : ScanEnd(t)

\* a run, from its start to the end of its loop
RunLoop ==
    \/ \E r \in 1..MaxRuns : RunCount(r)
    \/ \E r \in 1..MaxRuns : RunSubmit(r)
    \/ \E r \in 1..MaxRuns : RunProgress(r)
    \/ \E r \in 1..MaxRuns, j \in 1..MaxJobs : JobStart(r, j)
    \/ \E r \in 1..MaxRuns, j \in 1..MaxJobs, o \in {"ok", "nonzero", "raise"} :
           JobFinish(r, j, o)
    \/ \E r \in 1..MaxRuns, j \in 1..MaxJobs : RunCollect(r, j)
    \/ \E r \in 1..MaxRuns : RunDone(r)

\* the moves of the pass after a run
RunMoves ==
    \/ \E r \in 1..MaxRuns, how \in MoveOutcomes : RunMove(r, how)
    \/ \E r \in 1..MaxRuns : RunMoveOver(r)

MoverThread ==
    \/ \E how \in MoveOutcomes : MoverStep(how)
    \/ MoverOver

LiveMoves ==
    \/ \E how \in MoveOutcomes : MainMove(how)
    \/ MainMoveOver

Next ==
    \/ UserManual
    \/ ToggleLiveMode
    \/ LiveTick
    \/ Driver
    \/ ScanThreads
    \/ RunLoop
    \/ \E r \in 1..MaxRuns : RunCrash(r)
    \/ RunMoves
    \/ MoverThread
    \/ LiveMoves
    \/ PeriodicCleanup
    \/ Tick
    \/ \E s \in Shots : FrameArrives(s)
    \/ \E s \in Shots, b \in Frames : FrameRewritten(s, b)
    \/ \E s \in Shots : OutputLocked(s)
    \/ ToolVanishes
    \/ RootVanishes

Spec == Init /\ [][Next]_vars

\* ------------------------------------------------------------- scenarios
\* A scenario is the program started over a given filesystem, with some of
\* its operations: those of the threads and of the user that take part.

\* the frames 1..n of a shot, written at time 0
FramesAt0(n) == Dir({File(SourceFrame(b), 0) : b \in 1..n})

\* shot 1 alone, with n frames, nothing converted
OneShot(n) == [s \in Shots |-> IF s = 1 THEN FramesAt0(n) ELSE NoDir]

\* shot 1 with n frames and shot 2 with one frame, nothing converted
TwoShots(n) ==
    [s \in Shots |-> IF s = 1 THEN FramesAt0(n)
                     ELSE IF s = 2 THEN FramesAt0(1) ELSE NoDir]

\* Overlapping runs: the user converts and toggles live mode while runs
\* are converting.  The refresh_request at the end of a run is not handled.
InitOverlap == ProgramStart(TRUE, OneShot(MaxFrames), NoDirs, NoDirs, NoStatus, TRUE)

NextOverlap ==
    \/ SelectFolder
    \/ ScanThreads
    \/ ProcessScanStarted
    \/ ProcessScanFinished
    \/ ProcessDone
    \/ \E sel \in Selections : ClickConvert(sel)
    \/ ToggleLiveMode
    \/ RunLoop

OverlapSpec == InitOverlap /\ [][NextOverlap]_vars

\* C1: at every moment the converter invocations in progress, counted over
\* all the runs, manual and automatic, are at most max_workers.
C1_InProgressAtMostMaxWorkers == InProgress <= max_workers

\* two runs have converter invocations in progress at the same time
C1_TwoRunsConverting ==
    \E r1, r2 \in 1..MaxRuns : r1 # r2 /\ Running(r1) # {} /\ Running(r2) # {}

\* One manual run at a time over two shots, the converter failing at will
\* and its executable being removed at any moment.  The refresh_request at
\* the end of a run is not handled.
InitRun == ProgramStart(TRUE, TwoShots(MaxFrames), NoDirs, NoDirs, NoStatus, TRUE)

NextRun ==
    \/ SelectFolder
    \/ ScanThreads
    \/ ProcessScanStarted
    \/ ProcessScanFinished
    \/ ProcessDone
    \/ \E sel \in Selections : ClickConvert(sel)
    \/ RunLoop
    \/ ToolVanishes

RunSpec == InitRun /\ [][NextRun]_vars

\* the files of a directory that are not temporary files
FinalFiles(dir) == {f \in dir.files : f.stem # "tmp"}

\* this step ends job j of run r with a result that is not 0
JobFails(r, j) ==
    /\ j \in DOMAIN runs[r].jobs
    /\ runs[r].jobs[j].st \in {"queued", "running"}
    /\ j \in DOMAIN runs'[r].jobs
    /\ runs'[r].jobs[j].st = "finished"
    /\ runs'[r].jobs[j].ret # 0

\* this step is the end of the loop of run r: the "done" message
RunEnds(r) == runs[r].pc = "collect" /\ runs'[r].pc \in {"idle", "moving"}

JobsOfShot(r, s) == {j \in DOMAIN runs[r].jobs : runs[r].jobs[j].shot = s}

\* C2: a job that fails creates or changes no final converted file, and a
\* run ends only after every job it submitted, failed or not, has run and
\* reported its result: the counters of the run count each job once.
C2_FailedJobIsolated ==
    [][/\ \A r \in 1..MaxRuns, j \in 1..MaxJobs :
            JobFails(r, j) =>
                /\ \A s \in Shots : FinalFiles(sbsDir'[s]) = FinalFiles(sbsDir[s])
                /\ compDir' = compDir
       /\ \A r \in 1..MaxRuns :
            RunEnds(r) =>
                /\ \A j \in DOMAIN runs[r].jobs : runs[r].jobs[j].st = "collected"
                /\ runs[r].done = Len(runs[r].jobs)
                /\ \A s \in Range(runs[r].shots) :
                       runs[r].shot_progress[s].done = Cardinality(JobsOfShot(r, s))
      ]_vars

\* a run has collected all its jobs: one failed and left no final file,
\* another succeeded and its final file is there
C2_FailedAndConvertedJobs ==
    \E r \in 1..MaxRuns :
        /\ runs[r].pc = "collect"
        /\ \A j \in DOMAIN runs[r].jobs : runs[r].jobs[j].st = "collected"
        /\ \E j, k \in DOMAIN runs[r].jobs :
              /\ runs[r].jobs[j].ret # 0
              /\ SbsName(runs[r].jobs[j].frame)
                     \notin Names(sbsDir[runs[r].jobs[j].shot].files)
              /\ runs[r].jobs[k].ret = 0
              /\ SbsName(runs[r].jobs[k].frame)
                     \in Names(sbsDir[runs[r].jobs[k].shot].files)

\* Live mode switched on and off around runs over one shot of one frame,
\* the converter executable being removed at any moment.  The driver loop
\* empties the queue before another thread or the user takes a step.
InitLiveRun == ProgramStart(TRUE, OneShot(1), NoDirs, NoDirs, NoStatus, TRUE)

\* the driver loop has nothing to handle
Quiet == queue = <<>>

NextLiveRun ==
    \/ Driver
    \/ Quiet /\ SelectFolder
    \/ Quiet /\ \E t \in 1..MaxScanThreads : ScanBegin(t)
    \/ Quiet /\ \E t \in 1..MaxScanThreads : ScanEnd(t)
    \/ Quiet /\ \E sel \in Selections : ClickConvert(sel)
    \/ Quiet /\ ToggleLiveMode
    \/ Quiet /\ \E r \in 1..MaxRuns : RunCount(r)
    \/ Quiet /\ \E r \in 1..MaxRuns : RunSubmit(r)
    \/ Quiet /\ \E r \in 1..MaxRuns : RunProgress(r)
    \/ Quiet /\ \E r \in 1..MaxRuns, j \in 1..MaxJobs : JobStart(r, j)
    \/ Quiet /\ \E r \in 1..MaxRuns, j \in 1..MaxJobs,
                   o \in {"ok", "nonzero", "raise"} : JobFinish(r, j, o)
    \/ Quiet /\ \E r \in 1..MaxRuns, j \in 1..MaxJobs : RunCollect(r, j)
    \/ Quiet /\ \E r \in 1..MaxRuns : RunDone(r)
    \/ Quiet /\ ToolVanishes

LiveRunSpec == InitLiveRun /\ [][NextLiveRun]_vars

\* this step starts run r
RunStarts(r) == runs[r].pc = "idle" /\ runs'[r].pc = "count"

\* C3: a run, started by the user or by live mode, starts only when the
\* converter executable is found: without it the run is aborted before any
\* job is submitted.
C3_NoRunWithoutTool ==
    [][\A r \in 1..MaxRuns : RunStarts(r) => toolOnDisk]_vars

\* a job of a run has failed for want of the executable
C3_JobFailedWithoutTool ==
    \E r \in 1..MaxRuns, j \in 1..MaxJobs :
        /\ j \in DOMAIN runs[r].jobs
        /\ ~toolOnDisk
        /\ runs[r].jobs[j].st = "finished"
        /\ runs[r].jobs[j].ret = -1

\* Manual mode over one shot of one frame: the user converts, refreshes and
\* promotes, and the converter succeeds.  The driver loop empties the queue
\* before another thread or the user takes a step.
InitManual == ProgramStart(TRUE, OneShot(1), NoDirs, NoDirs, NoStatus, TRUE)

NextManual ==
    \/ Driver
    \/ Quiet /\ SelectFolder
    \/ Quiet /\ ClickRefresh
    \/ Quiet /\ \E t \in 1..MaxScanThreads : ScanBegin(t)
    \/ Quiet /\ \E t \in 1..MaxScanThreads : ScanEnd(t)
    \/ Quiet /\ \E sel \in Selections : ClickConvert(sel)
    \/ Quiet /\ \E sel \in Selections : ClickMoveSelected(sel)
    \/ Quiet /\ \E r \in 1..MaxRuns : RunCount(r)
    \/ Quiet /\ \E r \in 1..MaxRuns : RunSubmit(r)
    \/ Quiet /\ \E r \in 1..MaxRuns : RunProgress(r)
    \/ Quiet /\ \E r \in 1..MaxRuns, j \in 1..MaxJobs : JobStart(r, j)
    \/ Quiet /\ \E r \in 1..MaxRuns, j \in 1..MaxJobs : JobFinish(r, j, "ok")
    \/ Quiet /\ \E r \in 1..MaxRuns, j \in 1..MaxJobs : RunCollect(r, j)
    \/ Quiet /\ \E r \in 1..MaxRuns : RunDone(r)
    \/ Quiet /\ \E r \in 1..MaxRuns, how \in WholeMoves : RunMove(r, how)
    \/ Quiet /\ \E r \in 1..MaxRuns : RunMoveOver(r)
    \/ Quiet /\ \E how \in WholeMoves : MoverStep(how)
    \/ Quiet /\ MoverOver

ManualSpec == InitManual /\ [][NextManual]_vars

MaxOf(S) == CHOOSE x \in S : \A y \in S : y <= x

\* The idle-render heuristic as the specification words it, for shot s at
\* time t (ticks): with n >= 2 source frames, the mean inter-frame delta is
\* (most recent - oldest) / (n - 1), and the shot is idle when
\*   t - most recent > max(min_delay, mean delta * frame_time_multiplier).
IdleBySpec(s, t) ==
    LET frames == {f \in srcDir[s].files : IsExr(NameOf(f)) /\ ~HasSbsTag(NameOf(f))}
        n == Cardinality(frames)
        recent == MaxOf({f.mtime : f \in frames}) * TickSeconds
        oldest == MinOf({f.mtime : f \in frames}) * TickSeconds
        since == (t * TickSeconds) - recent
    IN /\ n >= 2
       /\ since > min_delay
       /\ since * (n - 1) > (recent - oldest) * frame_time_multiplier

\* the converted-output directory of shot s, beside the source or moved
OutputDir(s) == IF compDir[s].exists THEN compDir[s] ELSE sbsDir[s]

\* the sync status derived from the files on disk
DerivedComplete(s) ==
    DropboxStatus(frame_count(srcDir[s]), sbs_frame_count(OutputDir(s))) = "Complete"

\* this step is the decision of an automatic pass to relocate shot s: the
\* pass after a run, or the live-mode evaluation
AutoPromotes(s) ==
    \/ \E r \in 1..MaxRuns :
          /\ runs[r].pc = "collect"
          /\ runs'[r].pc = "moving"
          /\ s \in Range(runs'[r].move.pending)
    \/ /\ main_move.pc = "idle"
       /\ main_move'.pc = "check"
       /\ s \in Range(main_move'.pending)

\* C4: an automatic pass decides to relocate a shot only if, when it
\* decides, the shot has no outstanding frame, its derived sync status is
\* Complete and the idle-render heuristic is satisfied.
C4_AutoMoveOnlyWhenIdle ==
    [][\A s \in Shots :
          AutoPromotes(s) =>
              /\ ~SourceGone(s)
              /\ frame_list(s) = <<>>
              /\ DerivedComplete(s)
              /\ IdleBySpec(s, now)]_vars

\* the pass after a run has just relocated shot 1, whose only frame was
\* written at the present time
C4_RunMovedFreshShot ==
    \E r \in 1..MaxRuns :
        /\ runs[r].pc = "moving"
        /\ runs[r].move.pc = "save"
        /\ Head(runs[r].move.pending) = 1
        /\ compDir[1].exists
        /\ \A f \in srcDir[1].files : f.mtime = now

\* this step relocates the converted-output directory of shot s
Relocates(s) == ~compDir[s].exists /\ compDir'[s].exists

\* this step is a step of the promotion the user asked for, on shot s
UserPromotionStep(s) ==
    /\ mover.pc = "move"
    /\ mover.pending # <<>>
    /\ Head(mover.pending) = s
    /\ mover' # mover

\* C5: with live mode off, the converted-output directory of a shot is
\* relocated only by the promotion the user asked for.
C5_ManualMoveOnlyByUser ==
    [][\A s \in Shots :
          (~live_mode_active /\ Relocates(s)) => UserPromotionStep(s)]_vars

\* with live mode off and no promotion asked for, a run has relocated a shot
C5_RunMovedInManualMode ==
    \E r \in 1..MaxRuns :
        /\ ~live_mode_active
        /\ live_threads = 0
        /\ mover.pc = "idle"
        /\ runs[r].pc = "moving"
        /\ runs[r].move.pc = "save"
        /\ compDir[Head(runs[r].move.pending)].exists

\* the calls of _move_multiple_worker
Promotions == <<mover, main_move>> \o [r \in 1..MaxRuns |-> runs[r].move]

\* scans and promotions between their load of the status file and their save
InStatusUpdate ==
    Cardinality({t \in 1..MaxScanThreads : scans[t].pc = "walked"})
    + Cardinality({i \in DOMAIN Promotions : Promotions[i].pc = "save"})

\* C8: at most one scan or promotion is between its load of the status file
\* and its save at any moment.
C8_StatusUpdatesSerialized == InStatusUpdate <= 1

\* every thread is over, shot 1 has been relocated, and the record a scan
\* saved last says it is not moved and has no moved path
C8_MovedFlagLost ==
    /\ \A t \in 1..MaxScanThreads : scans[t].pc = "idle"
    /\ \A i \in DOMAIN Promotions : Promotions[i].pc = "idle"
    /\ compDir[1].exists
    /\ statusFile.kind = "map"
    /\ 1 \in DOMAIN statusFile.map
    /\ statusFile.map[1].moved_path = ""

\* Live mode over one shot whose MaxFrames frames are all converted, while
\* the clock advances and the renderer writes frames again.
Converted(n) ==
    [s \in Shots |-> IF s = 1
                     THEN Dir({File(SbsName(SourceFrame(b)), 0) : b \in 1..n})
                     ELSE NoDir]

InitIdle ==
    ProgramStart(TRUE, OneShot(MaxFrames), Converted(MaxFrames), NoDirs, NoStatus, TRUE)

NextIdle ==
    \/ SelectFolder
    \/ ToggleLiveMode
    \/ LiveTick
    \/ ScanThreads
    \/ ProcessScanStarted
    \/ ProcessScanFinished
    \/ ProcessRefreshRequest
    \/ LiveMoves
    \/ Tick
    \/ \E s \in Shots, b \in Frames : FrameRewritten(s, b)

IdleSpec == InitIdle /\ [][NextIdle]_vars

\* this step is the live-mode evaluation of the scan result at the head of
\* the queue
LiveEvaluation ==
    /\ MainIdle
    /\ HeadIs("scan_finished")
    /\ live_mode_active
    /\ queue' = Tail(queue)

\* the scan result says shot is converted, Complete and not moved, and so
\* do the files on disk, with two source frames or more
FullyConverted(shot) ==
    /\ ~shot.is_moved
    /\ ~shot.needs_conversion
    /\ shot.dropbox_status = "Complete"
    /\ shot.path = shot.name
    /\ ~SourceGone(shot.name)
    /\ ~compDir[shot.name].exists
    /\ frame_count(srcDir[shot.name]) >= 2
    /\ frame_list(shot.name) = <<>>
    /\ DerivedComplete(shot.name)

\* C6: the live-mode evaluation selects a fully converted, Complete shot of
\* two source frames or more exactly when the time since its most recent
\* source frame exceeds max(min_delay, mean delta * frame_time_multiplier),
\* whatever the order of the timestamps among the file names.
C6_SelectedIffIdle ==
    [][LiveEvaluation =>
          \A i \in DOMAIN Head(queue).shots :
              FullyConverted(Head(queue).shots[i]) =>
                  (Head(queue).shots[i].name \in Range(main_move'.pending)
                      <=> IdleBySpec(Head(queue).shots[i].name, now))]_vars

\* a live-mode evaluation is about to decide on shot 1, fully converted,
\* which the test of the code finds idle though its most recent source
\* frame lies within the idle window
C6_IdleTestsDisagree ==
    /\ MainIdle
    /\ HeadIs("scan_finished")
    /\ live_mode_active
    /\ \E i \in DOMAIN Head(queue).shots :
          /\ Head(queue).shots[i].name = 1
          /\ FullyConverted(Head(queue).shots[i])
    /\ IdleLongEnough(1, now)
    /\ ~IdleBySpec(1, now)

\* Live mode over one shot of one frame, not converted: the user selects
\* the folder, converts and toggles live mode.  The driver loop empties the
\* queue before another thread or the user takes a step.
InitLive == ProgramStart(TRUE, OneShot(1), NoDirs, NoDirs, NoStatus, TRUE)

\* a step of scan thread t, of run r, of job j of run r
ScanStep(t) == Quiet /\ (ScanBegin(t) \/ ScanEnd(t))

RunStep(r) ==
    Quiet /\ (RunCount(r) \/ RunSubmit(r) \/ RunProgress(r) \/ RunDone(r)
                \/ \E j \in 1..MaxJobs : RunCollect(r, j))

JobStep(r, j) ==
    Quiet /\ (JobStart(r, j) \/ \E o \in {"ok", "nonzero", "raise"} : JobFinish(r, j, o))

NextLive ==
    \/ Driver
    \/ \E t \in 1..MaxScanThreads : ScanStep(t)
    \/ \E r \in 1..MaxRuns : RunStep(r)
    \/ \E r \in 1..MaxRuns, j \in 1..MaxJobs : JobStep(r, j)
    \/ Quiet /\ LiveTick
    \/ Quiet /\ SelectFolder
    \/ Quiet /\ \E sel \in Selections : ClickConvert(sel)
    \/ Quiet /\ ToggleLiveMode

\* The timer of the driver loop keeps firing and every thread keeps being
\* scheduled; the user is under no obligation.
FairLiveSpec ==
    /\ InitLive
    /\ [][NextLive]_vars
    /\ WF_vars(Driver)
    /\ WF_vars(Quiet /\ LiveTick)
    /\ \A t \in 1..MaxScanThreads : WF_vars(ScanStep(t))
    /\ \A r \in 1..MaxRuns : WF_vars(RunStep(r))
    /\ \A r \in 1..MaxRuns, j \in 1..MaxJobs : WF_vars(JobStep(r, j))

\* the last scan handled reports shot s as needing conversion
ReportedNeedingConversion(s) ==
    \E i \in DOMAIN shots : shots[i].name = s /\ shots[i].needs_conversion

\* a run over shot s has been started and is not over
RunStartedFor(s) ==
    \E r \in 1..MaxRuns : runs[r].pc # "idle" /\ s \in Range(runs[r].shots)

\* C7: while live mode is active and a folder is selected, a shot the scan
\* reports as needing conversion eventually has a run started for it, unless
\* live mode is switched off first.
C7_LiveModeStartsRun ==
    \A s \in Shots :
        (live_mode_active /\ current_folder /\ ReportedNeedingConversion(s))
            ~> (~live_mode_active \/ RunStartedFor(s))

\* live mode is on, the scan has reported shot 1 as needing conversion, no
\* run is active and the Convert button is disabled
C7_LiveModeHoldsBack ==
    /\ live_mode_active
    /\ current_folder
    /\ ReportedNeedingConversion(1)
    /\ \A r \in 1..MaxRuns : runs[r].pc = "idle"
    /\ queue = <<>>
    /\ convert_btn = DISABLED

\* Scans alone, over the filesystems and status files the program can be
\* started on: each shot directory missing or with frames, converted or not,
\* moved or not; the status file missing, a map, or corrupted.
SourceChoices == {NoDir, FramesAt0(1), FramesAt0(MaxFrames)}

OutputChoices == {NoDir, Dir({File(SbsName(SourceFrame(1)), 0)})}

\* the map a scan of an earlier session saved: every shot moved
MovedMap ==
    [s \in Shots |-> [EmptyRec EXCEPT !.is_moved = TRUE, !.moved_path = "comp",
                                      !.dropbox_status = "Complete", !.path = s,
                                      !.frames = 1, !.sbs_frames = 1]]

\* the map a scan of an earlier session saved: no shot moved
UnmovedMap ==
    [s \in Shots |-> [MovedMap[s] EXCEPT !.is_moved = FALSE, !.moved_path = "",
                                         !.dropbox_status = "Not Started",
                                         !.sbs_frames = 0]]

StatusChoices ==
    {StatusContent(kind, EmptyMap) : kind \in StatusKinds}
        \cup {StatusContent("map", MovedMap), StatusContent("map", UnmovedMap)}

InitScan ==
    \E src \in [Shots -> SourceChoices], out \in OutputChoices,
       moved \in [Shots -> BOOLEAN], status \in StatusChoices :
        ProgramStart(TRUE, src,
                     [s \in Shots |->
                         IF moved[s] \/ ~src[s].exists THEN NoDir ELSE out],
                     [s \in Shots |-> IF moved[s] THEN out ELSE NoDir],
                     status, TRUE)

NextScan ==
    \/ SelectFolder
    \/ ClickRefresh
    \/ ScanThreads
    \/ ProcessScanStarted
    \/ ProcessScanFinished
    \/ RootVanishes

ScanSpec == InitScan /\ [][NextScan]_vars

\* C9: a scan of a source root that does not exist finds no shot, raises no
\* error and returns its list: the scan_finished message is sent.
C9_MissingRootScanReturns ==
    [][\A t \in 1..MaxScanThreads :
          /\ (scans[t].pc = "start" /\ scans'[t].pc # "start" /\ ~rootExists)
                => (scans'[t].pc = "walked" /\ scans'[t].shots = <<>>)
          /\ (scans[t].pc = "walked" /\ scans'[t].pc # "walked" /\ ~rootExists)
                => /\ uncaught' = uncaught
                   /\ queue' = Append(queue, Msg("scan_finished", scans[t].shots))
      ]_vars

\* a scan thread has ended by an exception, the root missing, and the
\* driver loop still waits for the scan to finish
C9_ScanDiedWithoutRoot ==
    /\ ~rootExists
    /\ "scan_save" \in uncaught
    /\ scanning
    /\ queue = <<>>
    /\ \A t \in 1..MaxScanThreads : scans[t].pc = "idle"

\* the contents of a status file that is no well-formed status map
Corrupted == {"garbled", "nonmap", "undecodable"}

\* C10: over a corrupted status file the load gives an empty map without
\* raising, and the scan finds what a scan of the same filesystem without a
\* status file finds.
C10_CorruptedStatusAsAbsent ==
    [][\A t \in 1..MaxScanThreads :
          (scans[t].pc = "start" /\ scans'[t].pc # "start"
              /\ statusFile.kind \in Corrupted)
            => /\ load_shot_statuses(statusFile)
                      = [raised |-> FALSE, ismap |-> TRUE, map |-> EmptyMap]
               /\ uncaught' = uncaught
               /\ scans'[t].pc = "walked"
               /\ scans'[t].shots = ShotList(ScanWalk(EmptyMap).shots)
               /\ scans'[t].statuses = ScanWalk(EmptyMap).statuses
      ]_vars

\* a scan thread has ended by an exception over a corrupted status file,
\* though the root holds a shot
C10_ScanDiedOnStatusFile ==
    /\ rootExists
    /\ statusFile.kind \in Corrupted
    /\ "scan_status" \in uncaught
    /\ ScanEntries # {}
    /\ \A t \in 1..MaxScanThreads : scans[t].pc = "idle"

\* ------------------------------------------------------ progress counters
\* the sum of the per-shot done counters of run r
SumShotDone(r) ==
    SumFn([s \in DOMAIN runs[r].shot_progress |-> runs[r].shot_progress[s].done])

\* this step is a step of one and the same run r: the thread has not ended
SameRun(r) == runs[r].pc # "idle" /\ runs'[r].pc # "idle"

\* C11: in a run, at the start and after every job completion handled, the
\* overall done counter is the sum of the per-shot done counters, and within
\* the run neither the overall counter nor a per-shot counter decreases.
C11_CountersAgreeAndGrow ==
    /\ \A r \in 1..MaxRuns : runs[r].done = SumShotDone(r)
    /\ [][\A r \in 1..MaxRuns :
            /\ runs'[r].done = SumShotDone(r)'
            /\ SameRun(r) =>
                  /\ runs'[r].done >= runs[r].done
                  /\ \A s \in DOMAIN runs[r].shot_progress :
                        /\ s \in DOMAIN runs'[r].shot_progress
                        /\ runs'[r].shot_progress[s].done
                              >= runs[r].shot_progress[s].done
         ]_vars

\* a run over two shots has handled completions of both
C11_BothShotsCounted ==
    \E r \in 1..MaxRuns :
        /\ runs[r].pc = "collect"
        /\ runs[r].done >= 2
        /\ \E s1, s2 \in DOMAIN runs[r].shot_progress :
              /\ s1 # s2
              /\ runs[r].shot_progress[s1].done >= 1
              /\ runs[r].shot_progress[s2].done >= 1

\* ------------------------------------------ promotion onto a destination
\* this step is promotion i handling the shot at the head of its list, by
\* its existence checks or by its move
PromotionActs(i) ==
    /\ Promotions[i].pc \in {"check", "move"}
    /\ Promotions[i].pending # <<>>
    /\ Promotions'[i] # Promotions[i]

\* C12: a promotion that handles a shot while <destRoot>/<shot>_SBS exists
\* moves nothing, overwrites nothing, lets no exception escape, logs a line
\* (skipped or failed) and leaves the status store as it is, also when
\* other promotions of the shot take steps between its check and its move.
C12_ExistingDestinationUntouched ==
    [][\A i \in DOMAIN Promotions :
          (PromotionActs(i) /\ compDir[Head(Promotions[i].pending)].exists) =>
              /\ sbsDir' = sbsDir
              /\ compDir' = compDir
              /\ statusFile' = statusFile
              /\ uncaught' = uncaught
              /\ Promotions'[i].pc = "check"
              /\ Promotions'[i].last \in {"skipped", "failed"}
      ]_vars

\* a promotion has moved a shot's <shot>_SBS into a destination directory
\* that another promotion had made, and is about to record the shot as moved
C12_MovedIntoExistingDestination ==
    \E i \in DOMAIN Promotions :
        /\ Promotions[i].pc = "save"
        /\ NestedName(Head(Promotions[i].pending))
               \in Names(compDir[Head(Promotions[i].pending)].files)

\* ------------------------------------------------- promotion that fails
\* Manual promotion over shots of one frame each, all converted, the move
\* ending in any of its ways.  The driver loop empties the queue before
\* another thread or the user takes a step.
EveryShot(dir) == [s \in Shots |-> dir]

InitPromo ==
    ProgramStart(TRUE, EveryShot(FramesAt0(1)),
                 EveryShot(Dir({File(SbsName(SourceFrame(1)), 0)})),
                 NoDirs, NoStatus, TRUE)

NextPromo ==
    \/ ProcessScanStarted
    \/ ProcessScanFinished
    \/ ProcessRefreshRequest
    \/ Quiet /\ SelectFolder
    \/ Quiet /\ \E t \in 1..MaxScanThreads : ScanBegin(t)
    \/ Quiet /\ \E t \in 1..MaxScanThreads : ScanEnd(t)
    \/ Quiet /\ \E sel \in Selections : ClickMoveSelected(sel)
    \/ Quiet /\ \E how \in MoveOutcomes : MoverStep(how)
    \/ Quiet /\ MoverOver

PromoSpec == InitPromo /\ [][NextPromo]_vars

\* this step is the move of promotion i, and it leaves the source directory
\* of the shot where it was: the relocation has failed
RelocationFails(i) ==
    /\ PromotionActs(i)
    /\ Promotions[i].pc = "move"
    /\ sbsDir[Head(Promotions[i].pending)].exists
    /\ sbsDir' = sbsDir

\* C13: when the relocation of a shot fails, the status store is not
\* changed, the failure is logged, the promotion goes on to the remaining
\* shots of its batch, and the shot can be promoted again: its output
\* directory is beside the source and nothing is at the destination.
C13_FailedMoveLeavesShotReady ==
    [][\A i \in DOMAIN Promotions :
          RelocationFails(i) =>
              /\ statusFile' = statusFile
              /\ Promotions'[i].last = "failed"
              /\ Promotions'[i].pc = "check"
              /\ Promotions'[i].pending = Tail(Promotions[i].pending)
              /\ sbsDir'[Head(Promotions[i].pending)].exists
              /\ ~compDir'[Head(Promotions[i].pending)].exists
      ]_vars

\* a move has failed after copying: the next scan has reported the shot as
\* moved although its output directory is still beside the source and its
\* record was never updated by a promotion
C13_FailedMoveShownAsMoved ==
    \E i \in DOMAIN shots :
        /\ shots[i].is_moved
        /\ shots[i].path = shots[i].name
        /\ sbsDir[shots[i].name].exists
        /\ compDir[shots[i].name].exists
        /\ mover.pc = "idle"

\* ------------------------------------------- shots of fewer than two frames
\* C14: a shot with fewer than two source frames is not selected by an
\* automatic pass (the pass after a run, the live-mode evaluation), and its
\* converted-output directory is relocated by no step but the promotion the
\* user asked for.
C14_SingleFrameShotStays ==
    [][\A s \in Shots :
          frame_count(srcDir[s]) < 2 =>
              /\ ~AutoPromotes(s)
              /\ Relocates(s) => UserPromotionStep(s)]_vars

\* the pass after a run has moved a shot of one source frame and logged it
C14_RunMovedSingleFrameShot ==
    \E r \in 1..MaxRuns, s \in Shots :
        /\ runs[r].pc = "moving"
        /\ runs[r].move.last = "moved"
        /\ s \in Range(runs[r].shots)
        /\ frame_count(srcDir[s]) = 1
        /\ compDir[s].exists
        /\ ~sbsDir[s].exists

\* ------------------------------------------------------------ frame diff
\* _frame_list over the directories of one shot: the source directory holds
\* any of the frames, a frame with an upper-case extension and a tagged
\* file; the converted-output directory is missing or holds any of the
\* converted files.  Runs apply _frame_list while the renderer writes frames
\* and the listing of the output directory is forbidden.
UpperFrame == FileName("f", 1, "", ".EXR")

SourceNameChoices ==
    {SourceFrame(b) : b \in Frames} \cup {UpperFrame, SbsName(SourceFrame(1))}

OutputNameChoices == {SbsName(SourceFrame(b)) : b \in Frames} \cup {UpperFrame}

InitFrames ==
    \E S \in SUBSET SourceNameChoices :
    \E out \in {NoDir} \cup {Dir({File(n, 0) : n \in T}) : T \in SUBSET OutputNameChoices} :
        ProgramStart(TRUE,
                     [s \in Shots |-> IF s = 1 THEN Dir({File(n, 0) : n \in S}) ELSE NoDir],
                     [s \in Shots |-> IF s = 1 THEN out ELSE NoDir],
                     NoDirs, NoStatus, TRUE)

NextFrames ==
    \/ SelectFolder
    \/ ScanThreads
    \/ ProcessScanStarted
    \/ ProcessScanFinished
    \/ \E sel \in Selections : ClickConvert(sel)
    \/ \E r \in 1..MaxRuns : RunCount(r)
    \/ \E r \in 1..MaxRuns : RunSubmit(r)
    \/ \E r \in 1..MaxRuns : RunProgress(r)
    \/ \E r \in 1..MaxRuns, j \in 1..MaxJobs : JobStart(r, j)
    \/ \E r \in 1..MaxRuns, j \in 1..MaxJobs,
          o \in {"ok", "nonzero", "raise"} : JobFinish(r, j, o)
    \/ \E r \in 1..MaxRuns, j \in 1..MaxJobs : RunCollect(r, j)
    \/ \E s \in Shots : FrameArrives(s)
    \/ \E s \in Shots : OutputLocked(s)

FrameSpec == InitFrames /\ [][NextFrames]_vars

\* this step ends a job of shot s on frame n with result 0: the converted
\* file of n has been written
ConvertedNow(s, n) ==
    \E r \in 1..MaxRuns : \E j \in DOMAIN runs[r].jobs :
        /\ runs[r].jobs[j].shot = s
        /\ runs[r].jobs[j].frame = n
        /\ runs[r].jobs[j].st = "running"
        /\ runs'[r].jobs[j].st = "finished"
        /\ runs'[r].jobs[j].ret = 0

ConvertedNameBySpec(n) == FileName(n.stem, n.base, "_SBS", ".exr")

\* outstandingFrames as the specification words it: the source frames not
\* tagged as converted output, in lexical order, whose converted name is not
\* in the converted-output directory
OutstandingBySpec(s) ==
    SortNames({n \in Names(srcDir[s].files) :
                  /\ IsExr(n)
                  /\ ~HasSbsTag(n)
                  /\ ConvertedNameBySpec(n) \notin Names(sbsDir[s].files)})

\* the frames of the jobs of run r, in the order of their submission
JobFrames(r) == [j \in DOMAIN runs[r].jobs |-> runs[r].jobs[j].frame]

\* C16: for every content of the source directory and of the
\* converted-output directory (readable or missing), _frame_list gives the
\* untagged source frames, in lexical order, whose converted name
\* <frame>_SBS.exr is not in the converted-output directory.
C16_FrameListIsOutstanding ==
    \A s \in Shots :
        (~SourceGone(s) /\ sbsDir[s].readable) =>
            frame_list(s) = OutstandingBySpec(s)

\* a run has submitted the frames _frame_list gave it, no job has started,
\* and they are not the outstanding frames
C16_RunSubmittedOtherFrames ==
    \E r \in 1..MaxRuns :
        /\ runs[r].pc = "collect"
        /\ runs[r].shots = <<1>>
        /\ \A j \in DOMAIN runs[r].jobs : runs[r].jobs[j].st = "queued"
        /\ sbsDir[1].readable
        /\ JobFrames(r) = frame_list(1)
        /\ JobFrames(r) # OutstandingBySpec(1)

\* shot s is the shot run r lists in this step of its submission loop
Submits(r, s) ==
    /\ runs[r].pc = "submit"
    /\ runs[r].next <= Len(runs[r].shots)
    /\ runs[r].shots[runs[r].next] = s
    /\ runs'[r] # runs[r]

\* C17: when the converted-output directory of a shot exists and cannot be
\* listed, _frame_list gives all the source frames, sorted, and raises
\* nothing: a run that lists the shot submits a job for each of them and
\* goes on.
C17_UnreadableOutputListsAll ==
    [][\A s \in Shots :
          (~SourceGone(s) /\ sbsDir[s].exists /\ ~sbsDir[s].readable) =>
              /\ frame_list(s) = SortNames(SourceFrames(srcDir[s]))
              /\ \A r \in 1..MaxRuns :
                    Submits(r, s) =>
                        /\ runs'[r].pc = "submit"
                        /\ uncaught' = uncaught
                        /\ JobFrames(r)' = JobFrames(r) \o SortNames(SourceFrames(srcDir[s]))
      ]_vars

\* a run has submitted a frame whose converted file is in a
\* converted-output directory that cannot be listed; no job has started
C17_ConvertedFrameSubmittedAgain ==
    \E r \in 1..MaxRuns :
        /\ runs[r].pc = "collect"
        /\ sbsDir[1].exists
        /\ ~sbsDir[1].readable
        /\ \A j \in DOMAIN runs[r].jobs : runs[r].jobs[j].st = "queued"
        /\ \E j \in DOMAIN runs[r].jobs :
              SbsName(runs[r].jobs[j].frame) \in Names(sbsDir[1].files)

\* --------------------------------------------------------------- C18, C19
\* the names of the shots a scan thread holds after its walk
WalkedNames(t) == {scans[t].shots[i].name : i \in DOMAIN scans[t].shots}

\* the shot of name s in the list a scan thread holds after its walk
WalkedShot(t, s) ==
    scans[t].shots[CHOOSE i \in DOMAIN scans[t].shots :
                       scans[t].shots[i].name = s]

\* a scan thread walks the directories and keeps a result
Walks(t) == scans[t].pc = "start" /\ scans'[t].pc = "walked"

\* C18: a walk includes a ghost shot, moved and with nothing to convert, for
\* every loaded record marked moved whose source directory is gone and whose
\* destination directory exists, and no shot for such a record whose
\* destination directory is gone.
C18_GhostIffDestinationExists ==
    [][\A t \in 1..MaxScanThreads : Walks(t) =>
          LET map == load_shot_statuses(statusFile).map
          IN \A s \in DOMAIN map :
                (map[s].is_moved /\ SourceGone(s)) =>
                    IF compDir[s].exists
                    THEN /\ s \in WalkedNames(t)'
                         /\ WalkedShot(t, s)'.is_moved
                         /\ ~WalkedShot(t, s)'.needs_conversion
                         /\ WalkedShot(t, s)'.frames = map[s].frames
                    ELSE s \notin WalkedNames(t)'
      ]_vars

\* a scan holds a ghost shot for one record and none for another record
\* marked moved, both source directories gone
C18_GhostAndVanishedRecord ==
    \E t \in 1..MaxScanThreads, s, g \in Shots :
        /\ scans[t].pc = "walked"
        /\ rootExists
        /\ statusFile = StatusContent("map", MovedMap)
        /\ ~srcDir[s].exists /\ ~srcDir[g].exists
        /\ compDir[s].exists /\ s \in WalkedNames(t)
        /\ ~compDir[g].exists /\ g \notin WalkedNames(t)

\* a scan thread saves the map of its walk and returns its list
Saves(t) == scans[t].pc = "walked" /\ scans'[t].pc = "idle" /\ rootExists

\* C19: for every shot whose source directory exists, the is_moved of the
\* shot a walk returns and of the record it stores are whether the
\* destination directory exists at the walk, whatever the loaded record
\* said; the save writes the stored records to the status file.
C19_MoveStateFromFilesystem ==
    [][\A t \in 1..MaxScanThreads :
          /\ Walks(t) =>
                \A s \in ScanEntries :
                    /\ s \in WalkedNames(t)'
                    /\ WalkedShot(t, s)'.is_moved = compDir[s].exists
                    /\ s \in DOMAIN scans'[t].statuses
                    /\ scans'[t].statuses[s].is_moved = compDir[s].exists
          /\ Saves(t) => statusFile' = StatusContent("map", scans[t].statuses)
      ]_vars

\* a scan has saved, over a status file that recorded every shot as moved,
\* a record that is not moved for a shot without destination directory and
\* a record that is moved for a shot with one
C19_StaleRecordOverwritten ==
    \E s, g \in Shots :
        /\ rootExists /\ srcDir[s].exists /\ srcDir[g].exists
        /\ ~compDir[s].exists /\ compDir[g].exists
        /\ statusFile.kind = "map"
        /\ s \in DOMAIN statusFile.map /\ g \in DOMAIN statusFile.map
        /\ statusFile.map # MovedMap
        /\ statusFile.map[s].moved_path = "comp"
        /\ ~statusFile.map[s].is_moved
        /\ statusFile.map[g].is_moved

\* -------------------------------------------------------------------- C20
\* C20: a shot a walk reports as moved has no converted-output directory
\* left beside its source directory.
C20_MovedShotHasNoLocalOutput ==
    [][\A t \in 1..MaxScanThreads : Walks(t) =>
          \A s \in WalkedNames(t)' :
              WalkedShot(t, s)'.is_moved => ~sbsDir[s].exists
      ]_vars

\* a scan holds a shot it reports as moved, its source directory in place,
\* while a converted-output directory is beside the source and another one
\* at the destination, the run that made the former being over
C20_MovedShotWithLocalOutput ==
    \E t \in 1..MaxScanThreads, s \in Shots :
        /\ scans[t].pc = "walked"
        /\ s \in WalkedNames(t)
        /\ WalkedShot(t, s).is_moved
        /\ WalkedShot(t, s).path = s
        /\ rootExists /\ srcDir[s].exists
        /\ sbsDir[s].exists /\ compDir[s].exists
        /\ \A r \in 1..MaxRuns : runs[r].pc = "idle"
        /\ mover.pc = "idle"

\* -------------------------------------------------------------------- C21
\* Manual runs over one shot of one frame, the converter and the moves
\* failing at will.  The driver loop empties the queue before the user or a
\* thread takes a step, except that a scan thread may return at any moment.
InitFollow == ProgramStart(TRUE, OneShot(1), NoDirs, NoDirs, NoStatus, TRUE)

ScanRuns(t) == (Quiet /\ ScanBegin(t)) \/ ScanEnd(t)

RunRuns(r) ==
    Quiet /\ (\/ RunCount(r) \/ RunSubmit(r) \/ RunProgress(r) \/ RunDone(r)
              \/ \E j \in 1..MaxJobs : RunCollect(r, j)
              \/ \E how \in MoveOutcomes : RunMove(r, how)
              \/ RunMoveOver(r))

JobRuns(r, j) ==
    Quiet /\ (JobStart(r, j) \/ \E o \in {"ok", "nonzero", "raise"} : JobFinish(r, j, o))

NextFollow ==
    \/ Driver
    \/ \E t \in 1..MaxScanThreads : ScanRuns(t)
    \/ \E r \in 1..MaxRuns : RunRuns(r)
    \/ \E r \in 1..MaxRuns, j \in 1..MaxJobs : JobRuns(r, j)
    \/ Quiet /\ SelectFolder
    \/ Quiet /\ \E sel \in Selections : ClickConvert(sel)

\* The timer of the driver loop keeps firing and every thread keeps being
\* scheduled; the user is under no obligation.
FairFollowSpec ==
    /\ InitFollow
    /\ [][NextFollow]_vars
    /\ WF_vars(Driver)
    /\ \A t \in 1..MaxScanThreads : WF_vars(ScanRuns(t))
    /\ \A r \in 1..MaxRuns : WF_vars(RunRuns(r))
    /\ \A r \in 1..MaxRuns, j \in 1..MaxJobs : WF_vars(JobRuns(r, j))

\* every job of run r has completed and the run has not yet left its loop
AllJobsCollected(r) ==
    /\ runs[r].pc = "collect"
    /\ \A j \in DOMAIN runs[r].jobs : runs[r].jobs[j].st = "collected"

OnlyConverted(s) ==
    \A f \in sbsDir[s].files :
        \E n \in SourceFrames(srcDir[s]) : NameOf(f) = SbsName(n)

ScanDies(t) ==
    /\ scans[t].pc # "idle"
    /\ scans'[t].pc = "idle"
    /\ uncaught' # uncaught

\* C23: no failure is silent; in particular the failure of a scan puts an
\* event on the event queue.
C23_ScanFailurePutsEvent ==
    [][\A t \in 1..MaxScanThreads : ScanDies(t) => queue' # queue]_vars

\* a scan has failed on a status file that is no text, no event has been put
\* for it, and the driver loop still shows the scan as running
C23_ScanFailedSilently ==
    /\ statusFile.kind = "undecodable"
    /\ uncaught = {"scan_status"}
    /\ scanning
    /\ current_folder
    /\ shots = <<>>
    /\ queue = <<>>
    /\ \A t \in 1..MaxScanThreads : scans[t].pc = "idle"

\* ---------------------------------------------------------------- layouts
\* Scans over the layouts of one shot and the entries of the root: shot 1
\* has any number of frames, with or without a converted frame inside the
\* source directory; its converted-output directory is missing or holds any
\* number of files, beside the source and under the destination root; every
\* other entry of the root is missing, a shot, or an entry scan_shots skips.
ConvertedFiles(k) == {File(SbsName(SourceFrame(b)), 0) : b \in 1..k}

SourceLayouts ==
    {Dir(FramesAt0(n).files \cup legacy) :
        n \in 0..MaxFrames, legacy \in {{}, ConvertedFiles(1)}}

OutputLayouts == {NoDir} \cup {Dir(ConvertedFiles(k)) : k \in 0..MaxFrames}

EntryChoices == {NoDir, FramesAt0(1)} \cup {Entry(kind) : kind \in OtherEntries}

InitLayout ==
    \E src \in SourceLayouts, out \in OutputLayouts, comp \in OutputLayouts,
       other \in EntryChoices, status \in {NoStatus, StatusContent("map", MovedMap)} :
        ProgramStart(TRUE,
                     [s \in Shots |-> IF s = 1 THEN src ELSE other],
                     [s \in Shots |-> IF s = 1 THEN out ELSE NoDir],
                     [s \in Shots |-> IF s = 1 THEN comp ELSE NoDir],
                     status, TRUE)

NextLayout ==
    \/ SelectFolder
    \/ ClickRefresh
    \/ ScanThreads
    \/ ProcessScanStarted
    \/ ProcessScanFinished

LayoutSpec == InitLayout /\ [][NextLayout]_vars

\* -------------------------------------------------------------------- C24
\* C24: a walk returns one shot for every entry of the source root that is
\* a directory, not hidden, not __pycache__ and not named ..._SBS, and
\* beside them only ghosts of moved records; the names are pairwise
\* distinct and the list is ordered by name.
C24_OneShotPerDirectoryInOrder ==
    [][\A t \in 1..MaxScanThreads : Walks(t) =>
          LET list == scans'[t].shots
              map == load_shot_statuses(statusFile).map
              kept == {s \in Shots : /\ rootExists
                                     /\ srcDir[s].exists
                                     /\ srcDir[s].entry \notin OtherEntries}
          IN /\ kept \subseteq WalkedNames(t)'
             /\ \A s \in WalkedNames(t)' \ kept :
                    /\ s \in DOMAIN map
                    /\ map[s].is_moved
                    /\ compDir[s].exists
             /\ \A s \in kept : WalkedShot(t, s)'.path = s
             /\ \A i, k \in DOMAIN list : i < k => list[i].name < list[k].name
      ]_vars

\* a scan holds one shot for the shot directory of the root and none for
\* the entry beside it, a hidden directory
C24_HiddenEntrySkipped ==
    \E t \in 1..MaxScanThreads, s \in Shots :
        /\ scans[t].pc = "walked"
        /\ rootExists
        /\ srcDir[s].exists /\ srcDir[s].entry = "hidden"
        /\ WalkedNames(t) = {1}
        /\ statusFile.kind = "missing"

ExrCount(dir) == Cardinality({n \in Names(dir.files) : IsExr(n)})

\* C26: with a converted-output directory under the destination root and
\* one beside the source, a walk takes the converted count of the shot from
\* the former and reports it moved; with the one beside the source only, it
\* takes the count from there and reports the shot not moved.
C26_DestinationBeforeLocal ==
    [][\A t \in 1..MaxScanThreads : Walks(t) =>
          \A s \in ScanEntries :
              LET shot == WalkedShot(t, s)'
              IN /\ (compDir[s].exists /\ sbsDir[s].exists) =>
                        (shot.sbs_frames = ExrCount(compDir[s]) /\ shot.is_moved)
                 /\ (~compDir[s].exists /\ sbsDir[s].exists) =>
                        (shot.sbs_frames = ExrCount(sbsDir[s]) /\ ~shot.is_moved)
      ]_vars

\* a scan holds a shot reported moved with the count of the destination,
\* the directory beside the source holding another number of files
C26_CountFromDestination ==
    \E t \in 1..MaxScanThreads :
        /\ scans[t].pc = "walked"
        /\ 1 \in WalkedNames(t)
        /\ compDir[1].exists /\ sbsDir[1].exists
        /\ ExrCount(compDir[1]) = 1
        /\ ExrCount(sbsDir[1]) = MaxFrames
        /\ WalkedShot(t, 1).sbs_frames = 1
        /\ WalkedShot(t, 1).is_moved

\* the converted frames inside the source directory of shot s
LegacyCount(s) ==
    Cardinality({n \in Names(srcDir[s].files) : IsExr(n) /\ HasSbsTag(n)})

\* C27: with no converted-output directory under the destination root and
\* none beside the source, a walk takes the converted count of the shot
\* from the converted frames inside the source directory.
C27_LegacyLayoutCounted ==
    [][\A t \in 1..MaxScanThreads : Walks(t) =>
          \A s \in ScanEntries :
              (~compDir[s].exists /\ ~sbsDir[s].exists) =>
                  WalkedShot(t, s)'.sbs_frames = LegacyCount(s)
      ]_vars

\* a scan reports a shot whose only frame has its converted file inside
\* the source directory as having nothing converted
C27_LegacyFramesIgnored ==
    \E t \in 1..MaxScanThreads :
        /\ scans[t].pc = "walked"
        /\ 1 \in WalkedNames(t)
        /\ ~compDir[1].exists /\ ~sbsDir[1].exists
        /\ LegacyCount(1) = 1
        /\ WalkedShot(t, 1).frames = 1
        /\ WalkedShot(t, 1).sbs_frames = 0
        /\ WalkedShot(t, 1).needs_conversion

\* -------------------------------------------------------------------- C28
\* C28 as stated: for every shot of a walk that has a source directory, the
\* sync status is Complete exactly when convertedCount / frameCount is 1,
\* InProgress exactly when it is between 0 and 1, NotStarted otherwise.
C28_CompleteIffProgressIsOne ==
    [][\A t \in 1..MaxScanThreads : Walks(t) =>
          \A s \in ScanEntries :
              LET shot == WalkedShot(t, s)'
                  f == shot.frames
                  c == shot.sbs_frames
              IN /\ shot.dropbox_status = "Complete" <=> (f > 0 /\ c = f)
                 /\ shot.dropbox_status = "In Progress" <=> (f > 0 /\ 0 < c /\ c < f)
                 /\ shot.dropbox_status = "Not Started" <=> (f = 0 \/ c = 0 \/ c > f)
      ]_vars

\* C28 amended: the sync status is Complete exactly when frameCount > 0 and
\* convertedCount >= frameCount (progress at least 1), InProgress exactly
\* when 0 < convertedCount < frameCount, and NotStarted otherwise.
C28_CompleteIffProgressAtLeastOne ==
    [][\A t \in 1..MaxScanThreads : Walks(t) =>
          \A s \in ScanEntries :
              LET shot == WalkedShot(t, s)'
                  f == shot.frames
                  c == shot.sbs_frames
              IN /\ shot.dropbox_status = "Complete" <=> (f > 0 /\ c >= f)
                 /\ shot.dropbox_status = "In Progress" <=> (f > 0 /\ 0 < c /\ c < f)
                 /\ shot.dropbox_status = "Not Started" <=> (f = 0 \/ c = 0)
      ]_vars

\* a scan reports a shot with more converted files than frames as Complete
C28_MoreConvertedThanFrames ==
    \E t \in 1..MaxScanThreads :
        /\ scans[t].pc = "walked"
        /\ 1 \in WalkedNames(t)
        /\ srcDir[1].exists
        /\ WalkedShot(t, 1).frames = 1
        /\ WalkedShot(t, 1).sbs_frames = MaxFrames
        /\ WalkedShot(t, 1).dropbox_status = "Complete"
        /\ ~WalkedShot(t, 1).needs_conversion

\* -------------------------------------------------------------------- C29
\* the jobs of run r whose completion the loop has handled
Collected(r) == {j \in DOMAIN runs[r].jobs : runs[r].jobs[j].st = "collected"}

C30_DoneAtMostTotal ==
    [][\A r \in 1..MaxRuns :
          (SameRun(r) /\ runs'[r].done # runs[r].done) =>
              /\ runs'[r].done <= runs'[r].total_frames
              /\ \A s \in DOMAIN runs'[r].shot_progress :
                    runs'[r].shot_progress[s].done <= runs'[r].shot_progress[s].total
              /\ (\A j \in DOMAIN runs'[r].jobs : runs'[r].jobs[j].st = "collected")
                    => runs'[r].done = runs'[r].total_frames
      ]_vars

\* a run has handled more completions for a shot than the total it shows
\* for the shot, a job having finished before the total was taken, and more
\* completions overall than the total taken at its start, a frame having
\* arrived before the job list was built
C30_DoneAboveTotal ==
    \E r \in 1..MaxRuns :
        /\ runs[r].pc = "collect"
        /\ runs[r].done > runs[r].total_frames
        /\ \E s \in DOMAIN runs[r].shot_progress :
              runs[r].shot_progress[s].done > runs[r].shot_progress[s].total
        /\ \A j \in DOMAIN runs[r].jobs : runs[r].jobs[j].st = "collected"

\* -------------------------------------------------------------------- C31
\* C31: a shot a walk reports as not needing conversion has no outstanding
\* frame: _frame_list of the shot, on the filesystem the walk has read, is
\* empty.
C31_NothingToConvertNothingListed ==
    [][\A t \in 1..MaxScanThreads : Walks(t) =>
          \A s \in ScanEntries :
              ~WalkedShot(t, s)'.needs_conversion => frame_list(s) = <<>>
      ]_vars

\* a scan holds a shot reported as not needing conversion and not moved,
\* while the only file of its converted-output directory is the temporary
\* file of a job in progress and _frame_list lists its frame
C31_TempFileCountedAsConverted ==
    \E t \in 1..MaxScanThreads, r \in 1..MaxRuns :
        /\ scans[t].pc = "walked"
        /\ 1 \in WalkedNames(t)
        /\ ~WalkedShot(t, 1).needs_conversion
        /\ ~WalkedShot(t, 1).is_moved
        /\ WalkedShot(t, 1).dropbox_status = "Complete"
        /\ Running(r) # {}
        /\ \A f \in sbsDir[1].files : f.stem = "tmp"
        /\ frame_list(1) # <<>>

\* -------------------------------------------------------------------- C32
\* C32: a conversion run starts only while no earlier run is still before
\* its "done" event, whether it is started by start_convert or by
\* _handle_auto_processing.
C32_RunStartsWhenNoneActive ==
    [][\A r \in 1..MaxRuns :
          (runs[r].pc = "idle" /\ runs'[r].pc # "idle") =>
              \A q \in 1..MaxRuns \ {r} :
                  runs[q].pc \notin {"count", "submit", "collect"}
      ]_vars

\* two runs each have a converter invocation in progress on the same frame
\* of the same shot
C32_FrameConvertedTwiceAtOnce ==
    \E r1, r2 \in 1..MaxRuns :
        /\ r1 # r2
        /\ \E j1 \in Running(r1), j2 \in Running(r2) :
              /\ runs[r1].jobs[j1].shot = runs[r2].jobs[j2].shot
              /\ runs[r1].jobs[j1].frame = runs[r2].jobs[j2].frame

\* -------------------------------------------------------------------- C33
\* Late frames: shot 1 has been converted and promoted, and the renderer
\* writes a further frame into its source directory.  The user refreshes,
\* converts and toggles live mode; the converter succeeds.
InitLate ==
    ProgramStart(TRUE, OneShot(1), NoDirs, Converted(1), NoStatus, TRUE)

NextLate ==
    \/ Driver
    \/ \E t \in 1..MaxScanThreads : ScanRuns(t)
    \/ Quiet /\ \E r \in 1..MaxRuns : RunCount(r)
    \/ Quiet /\ \E r \in 1..MaxRuns : RunSubmit(r)
    \/ Quiet /\ \E r \in 1..MaxRuns : RunProgress(r)
    \/ Quiet /\ \E r \in 1..MaxRuns, j \in 1..MaxJobs : JobStart(r, j)
    \/ Quiet /\ \E r \in 1..MaxRuns, j \in 1..MaxJobs : JobFinish(r, j, "ok")
    \/ Quiet /\ \E r \in 1..MaxRuns, j \in 1..MaxJobs : RunCollect(r, j)
    \/ Quiet /\ \E r \in 1..MaxRuns : RunDone(r)
    \/ Quiet /\ SelectFolder
    \/ Quiet /\ ClickRefresh
    \/ Quiet /\ \E sel \in Selections : ClickConvert(sel)
    \/ Quiet /\ ToggleLiveMode
    \/ Quiet /\ LiveTick
    \/ Quiet /\ FrameArrives(1)

LateSpec == InitLate /\ [][NextLate]_vars

\* C33: a run is never started over a shot that the shot list of the
\* window, as it stands when the run starts, reports as moved.
C33_NoRunOverMovedShot ==
    [][\A r \in 1..MaxRuns :
          (runs[r].pc = "idle" /\ runs'[r].pc # "idle") =>
              \A k \in DOMAIN runs'[r].shots, i \in DOMAIN shots' :
                  shots'[i].name = runs'[r].shots[k] => ~shots'[i].is_moved
      ]_vars

\* a job exists for a frame of a shot that the shot list reports as moved
\* and as needing conversion
C33_JobForMovedShot ==
    \E r \in 1..MaxRuns, i \in DOMAIN shots :
        /\ shots[i].is_moved
        /\ shots[i].needs_conversion
        /\ \E j \in DOMAIN runs[r].jobs :
              /\ runs[r].jobs[j].shot = shots[i].name
              /\ runs[r].jobs[j].st \in {"queued", "running"}

\* -------------------------------------------------------------------- C34
\* Scans under fair scheduling: the timer of the driver loop keeps firing
\* and every scan thread keeps being scheduled; the user is under no
\* obligation.
FairScanSpec ==
    /\ InitScan
    /\ [][NextScan]_vars
    /\ WF_vars(ProcessScanStarted \/ ProcessScanFinished)
    /\ \A t \in 1..MaxScanThreads : WF_vars(ScanBegin(t) \/ ScanEnd(t))

\* C34: whenever the scanning flag is set, by the handling of scan_started,
\* it is eventually cleared, by the handling of scan_finished.
C34_ScanningEventuallyCleared == scanning ~> ~scanning

\* the scanning flag is set, the scan thread has ended by an exception, no
\* message is left for the driver loop and no scan can be started
C34_ScanningSetForEver ==
    /\ scanning
    /\ uncaught \cap {"scan_status", "scan_listdir", "scan_save"} # {}
    /\ queue = <<>>
    /\ \A t \in 1..MaxScanThreads : scans[t].pc = "idle"
    /\ ~ENABLED NextScan

\* -------------------------------------------------------------------- C35
\* Runs under fair scheduling, over a source root that may be removed at
\* any moment: the scenario of FairFollowSpec with that fault.
NextVanish ==
    \/ NextFollow
    \/ Quiet /\ RootVanishes

FairVanishSpec ==
    /\ InitFollow
    /\ [][NextVanish]_vars
    /\ WF_vars(Driver)
    /\ \A t \in 1..MaxScanThreads : WF_vars(ScanRuns(t))
    /\ \A r \in 1..MaxRuns : WF_vars(RunRuns(r))
    /\ \A r \in 1..MaxRuns, j \in 1..MaxJobs : WF_vars(JobRuns(r, j))

\* C35: every run that has been started eventually puts its "done" message
\* on the queue.
C35_RunEventuallyDone ==
    \A r \in 1..MaxRuns :
        (runs[r].pc = "count") ~> (\E i \in DOMAIN queue : queue[i].type = "done")

\* the thread of a run has ended by an exception over the removed source
\* directory: no run is left, no message is left for the driver loop and
\* the Convert button is still disabled
C35_RunDiedConvertDisabled ==
    /\ ~rootExists
    /\ "convert" \in uncaught
    /\ \A r \in 1..MaxRuns : runs[r].pc = "idle"
    /\ queue = <<>>
    /\ convert_btn = DISABLED
    /\ ~live_mode_active

\* -------------------------------------------------------------------- C36
\* C36: at most one _live_mode_worker thread is alive at any time.
C36_OneLiveThread == live_threads <= 1

\* live mode is on and two _live_mode_worker threads are alive; the scan of
\* the folder selection has been handled, nothing has been promoted, and
\* two scans started since are running at once
C36_TwoLiveThreadsScanning ==
    /\ live_mode_active
    /\ live_threads = 2
    /\ shots # <<>>
    /\ \A s \in Shots : ~compDir[s].exists
    /\ \A t \in 1..MaxScanThreads : scans[t].pc # "idle"
    /\ Len(SelectSeq(queue, LAMBDA m : m.type = "scan_started")) = 2

\* -------------------------------------------------------------------- C37
\* C37: while live mode is active, the Convert button and the Move button
\* are disabled.
C37_ControlsDisabledInLiveMode ==
    live_mode_active =>
        (convert_btn = DISABLED /\ move_selected_btn = DISABLED)

\* live mode is active and the driver loop, no run being left, has set the
\* Convert button back to NORMAL while the Move button is disabled
C37_ConvertEnabledInLiveMode ==
    /\ live_mode_active
    /\ convert_btn = NORMAL
    /\ move_selected_btn = DISABLED
    /\ queue = <<>>
    /\ \A r \in 1..MaxRuns : runs[r].pc = "idle"

\* -------------------------------------------------------------------- C38
\* Round trips: shot 1 holds any frames, one of them with an upper-case
\* extension; some of them have been converted by the program, and the
\* converted files lie beside the source or, the shot having been promoted,
\* under the destination root.  The user converts; the converter succeeds
\* and nobody else writes.
InitRound ==
    \E S \in (SUBSET ({SourceFrame(b) : b \in Frames} \cup {UpperFrame})) \ {{}} :
    \E T \in SUBSET S, moved \in BOOLEAN :
        LET out == Dir({File(SbsName(n), 0) : n \in T})
        IN ProgramStart(TRUE,
               [s \in Shots |-> IF s = 1 THEN Dir({File(n, 0) : n \in S}) ELSE NoDir],
               [s \in Shots |-> IF s = 1 /\ ~moved /\ T # {} THEN out ELSE NoDir],
               [s \in Shots |-> IF s = 1 /\ moved THEN out ELSE NoDir],
               NoStatus, TRUE)

NextRound ==
    \/ Driver
    \/ \E t \in 1..MaxScanThreads : ScanRuns(t)
    \/ Quiet /\ \E r \in 1..MaxRuns : RunCount(r)
    \/ Quiet /\ \E r \in 1..MaxRuns : RunSubmit(r)
    \/ Quiet /\ \E r \in 1..MaxRuns : RunProgress(r)
    \/ Quiet /\ \E r \in 1..MaxRuns, j \in 1..MaxJobs : JobStart(r, j)
    \/ Quiet /\ \E r \in 1..MaxRuns, j \in 1..MaxJobs : JobFinish(r, j, "ok")
    \/ Quiet /\ \E r \in 1..MaxRuns, j \in 1..MaxJobs : RunCollect(r, j)
    \/ Quiet /\ \E r \in 1..MaxRuns : RunDone(r)
    \/ Quiet /\ SelectFolder
    \/ Quiet /\ \E sel \in Selections : ClickConvert(sel)

RoundSpec == InitRound /\ [][NextRound]_vars

\* run r has collected all its jobs, at least one, and each has succeeded
AllJobsSucceeded(r) ==
    /\ AllJobsCollected(r)
    /\ runs[r].jobs # <<>>
    /\ \A j \in DOMAIN runs[r].jobs : runs[r].jobs[j].ret = 0

\* on the present files, _frame_list of shot s is empty and scan_shots
\* reports s as converted, with as many converted files as frames
RoundTrip(s) ==
    /\ frame_list(s) = <<>>
    /\ ~ScanShot(s).needs_conversion
    /\ ScanShot(s).sbs_frames = ScanShot(s).frames
    /\ ScanShot(s).dropbox_status = "Complete"

\* C38: when a run has collected all its jobs and each has succeeded, every
\* shot of the run has no outstanding frame and is reported by a scan as
\* not needing conversion, with progress 1.0.
C38_RunCompletesItsShots ==
    \A r \in 1..MaxRuns :
        AllJobsSucceeded(r) => \A s \in Range(runs[r].shots) : RoundTrip(s)

\* the same for the shots that have not been promoted
RoundTripOfUnmovedShots ==
    \A r \in 1..MaxRuns :
        AllJobsSucceeded(r) =>
            \A s \in Range(runs[r].shots) : ~compDir[s].exists => RoundTrip(s)

\* a run over a promoted shot has converted every frame, each job
\* succeeding: no frame is outstanding, the converted files lie beside the
\* source, and a scan still reports the shot as needing conversion
C38_ConvertedYetNeedingConversion ==
    \E r \in 1..MaxRuns :
        /\ AllJobsSucceeded(r)
        /\ 1 \in Range(runs[r].shots)
        /\ frame_list(1) = <<>>
        /\ sbs_frame_count(sbsDir[1]) = frame_count(srcDir[1])
        /\ ScanShot(1).is_moved
        /\ ScanShot(1).needs_conversion

====
